---- MODULE Spec2Model ----
(***************************************************************************)
(* The duplex bridge of src/realtimeHandler.js: one telephony (Twilio)     *)
(* media-stream socket bridged to one OpenAI Realtime socket.  The state   *)
(* is the closure state of one wss 'connection' callback; every action is  *)
(* one event handler of that closure, run to completion (or to its first   *)
(* await that really suspends).                                            *)
(***************************************************************************)
EXTENDS Integers, Sequences, FiniteSets, TLC

\* 0 stands for a field that is absent (undefined / null / empty string).
Absent == 0

\* ------------------------------------------------------------------ bounds
MaxRespId == 2    \* response ids the engine assigns: 1..MaxRespId
MaxBuf == 3       \* longest accumulated argument text, in characters
MaxPending == 1   \* SMS sends in flight at once

\* Sample values of the opaque data the bridge only copies: two of each, so
\* that a mix-up shows.
StreamSids == {1, 2}
Payloads == {1, 2}
CallIds == {1, 2}

\* ---------------------------------------------------------------- messages

NoName == "none"
CaptureMessage == "capture_message"
OtherTool == "other_tool"
ToolNames == {NoName, CaptureMessage, OtherTool}

\* Argument text is a string over a three-letter alphabet: an opening brace,
\* a messageBody member, a closing brace.
Chars == {"{", "b", "}"}
NoText == << >>
FullTexts == {NoText, <<"{", "}">>, <<"{", "b", "}">>, <<"b">>}
Fragments == {NoText} \cup {<<c>> : c \in Chars}

\* JSON.parse(functionCallBuffer): throws unless the text is an object.
JsonValid(text) ==
  /\ Len(text) >= 2
  /\ text[1] = "{"
  /\ text[Len(text)] = "}"
  /\ \A i \in 2..(Len(text) - 1) : text[i] = "b"

\* sanitizeText(parsedArgs?.messageBody, 2000) is non-empty.
HasMessageBody(text) == JsonValid(text) /\ Len(text) >= 3

\* What a handler sends: the socket, the message kind and two fields.
Out(to, kind, a, b) == [to |-> to, kind |-> kind, a |-> a, b |-> b]
TwilioMedia(sid, payload) == Out("twilio", "media", sid, payload)
TwilioClear(sid) == Out("twilio", "clear", sid, Absent)
AudioAppend(payload) == Out("openai", "input_audio_buffer.append", payload, Absent)
ResponseCancel(rid) == Out("openai", "response.cancel", rid, Absent)
SessionUpdate(which) == Out("openai", "session.update", which, Absent)
ResponseCreate(which) == Out("openai", "response.create", which, Absent)
FunctionCallOutput(cid, result) == Out("openai", "function_call_output", cid, result)

\* Inbound telephony messages: event and its one relevant field.
TMsg(event, arg) == [event |-> event, arg |-> arg]
TwilioMsgs ==
  {TMsg("media", p) : p \in {Absent} \cup Payloads}
    \cup {TMsg("start", s) : s \in {Absent} \cup StreamSids}
    \cup {TMsg("mark", Absent), TMsg("stop", Absent), TMsg("malformed", Absent)}

\* Inbound engine messages.
EMsg(type, rid, chunk, name, cid, delta, args) ==
  [type |-> type, rid |-> rid, chunk |-> chunk, name |-> name, cid |-> cid,
   delta |-> delta, args |-> args]
Plain(type, rid) == EMsg(type, rid, Absent, NoName, Absent, NoText, NoText)
EndTypes == {"response.output_audio.done", "response.done", "response.cancelled"}
EngineMsgs ==
  {Plain("input_audio_buffer.speech_started", Absent)}
    \cup {Plain("response.created", r) : r \in 1..MaxRespId}
    \cup {Plain(t, r) : t \in EndTypes, r \in 1..MaxRespId}
    \cup {EMsg("response.output_audio.delta", Absent, c, NoName, Absent, NoText, NoText) :
            c \in {Absent} \cup Payloads}
    \cup {EMsg("response.function_call_arguments.delta", Absent, Absent, n, c, d, NoText) :
            n \in ToolNames, c \in {Absent} \cup CallIds, d \in Fragments}
    \cup {EMsg("response.function_call_arguments.done", Absent, Absent, n, c, d, a) :
            n \in ToolNames, c \in {Absent} \cup CallIds, d \in Fragments, a \in FullTexts}
    \cup {Plain("error", Absent), Plain("session.updated", Absent),
          Plain("malformed", Absent)}

\* ------------------------------------------------------------------- state
VARIABLES
  bridge,                 \* "new", "wired" (handlers attached) or "refused"
  socketState,            \* socket.readyState of the telephony socket
  openaiState,            \* openaiSocket.readyState ("NONE": no socket)
  smsConfigured,          \* the SMS environment variables are all set
  streamSid,
  activeResponse,
  currentResponseId,
  userSpeaking,
  functionCallBuffer,
  functionCallName,
  functionCallId,
  lastCapturedMessage,    \* TRUE once a payload was captured
  messageDispatchStatus,  \* "none", "delivered" or "failed"
  openaiReady,
  twilioStartReceived,
  sessionInitialized,
  timer,                  \* the 1500 ms timeout: "idle", "armed", "fired"
  pendingSms,             \* handleCaptureMessage calls suspended in await
  \* what the last handler did
  lastEvent,              \* [type, arg] of the event it handled
  sent,                   \* the messages it sent, in order
  parsed,                 \* the text it gave to JSON.parse, or NoParse
  \* what the engine and the call have seen so far
  createdMax,             \* newest response id the engine created
  ended,                  \* response ids an end event named
  nInit,                  \* session initializations sent (saturating)
  \* observers that only some specifications advance
  streamed,               \* per call id, the text the engine streamed for it
  speechPending,          \* speech started and no response.created since
  scriptPos,              \* events of the barge-in script delivered
  scriptOut,              \* what the bridge sent on each of them
  nSubmit,                \* SMS sends handed to the provider (saturating)
  dispatched,             \* accumulator each suspended capture handler parsed
  \* the resampler (module state of resample.js and the call in progress)
  ffmpegChecked,
  ffmpegUsable,
  rsEntry,                \* entry point of the call: "best", "to8k" or "none"
  rsPc,                   \* "idle", "probing", "running", "hung" or "done"
  rsResult,               \* what the call returned
  rsSpawns,               \* the subprocesses it spawned and how each ended
  nProbe,                 \* ffmpeg -version probes spawned (saturating)
  nCalls,                 \* resample calls started
  \* two calls served by one process
  calls,                  \* per call, the state its handlers own
  actor,                  \* the call whose handler ran last (Absent: none)
  \* a pure function of the audio library under test
  fnArgs,                 \* its arguments
  fnResult,               \* what it returned
  fnDone,                 \* whether it has been applied
  \* one Conditioner (dsp.js) and the last processForTelephony call on it
  dspState,               \* the object initDspState() made
  dspTrace,               \* what the last call was given and did
  \* one call of the order-taking bridge (its closure variables)
  orderCall,
  \* one call of the Gemini bridge and its GeminiLiveClient
  geminiCall,
  \* the outbound audio path of one GeminiLiveClient
  audioOut

bridgeVars ==
  <<bridge, socketState, openaiState, smsConfigured, streamSid, activeResponse,
    currentResponseId, userSpeaking, functionCallBuffer, functionCallName,
    functionCallId, lastCapturedMessage, messageDispatchStatus, openaiReady,
    twilioStartReceived, sessionInitialized, timer, pendingSms, lastEvent, sent,
    parsed, createdMax, ended, nInit>>

callAux == <<streamed, speechPending, scriptPos, scriptOut, nSubmit, dispatched>>

resampleVars ==
  <<ffmpegChecked, ffmpegUsable, rsEntry, rsPc, rsResult, rsSpawns, nProbe, nCalls>>

\* State of the audio library and of the other bridges, which no handler of
\* the realtime bridge touches.
twoCallVars == <<calls, actor>>

fnVars == <<fnArgs, fnResult, fnDone>>

dspVars == <<dspState, dspTrace>>

\* State of the other bridges of the repository.
otherBridgeVars == <<orderCall, geminiCall, audioOut>>

libVars == <<resampleVars, twoCallVars, fnVars, dspVars, otherBridgeVars>>

auxVars == <<callAux, libVars>>

vars == <<bridgeVars, auxVars>>

NoParse == <<"-">>
Ev(type, arg) == [type |-> type, arg |-> arg]
\* A counter that tells none, one and more than one apart.
Sat(n) == IF n < 2 THEN n + 1 ELSE 2

callState ==
  <<streamSid, activeResponse, currentResponseId, userSpeaking, openaiReady,
    twilioStartReceived, sessionInitialized>>

\* The resampler module as loaded, no call made yet.
ResampleInit ==
  /\ ffmpegChecked = FALSE
  /\ ffmpegUsable = FALSE
  /\ rsEntry = "none"
  /\ rsPc = "idle"
  /\ rsResult = "none"
  /\ rsSpawns = << >>
  /\ nProbe = 0
  /\ nCalls = 0

\* Two calls are connected at once.
CallNames == {1, 2}

\* What the connection handler and the client constructor give a new call.
FreshCall ==
  [streamSid |-> Absent, activeResponse |-> FALSE, userSpeaking |-> FALSE,
   functionCallBuffer |-> NoText, dspBlocks |-> 0, out |-> "none", probed |-> FALSE]

TwoCallsInit ==
  /\ calls = [c \in CallNames |-> FreshCall]
  /\ actor = Absent

\* No library function is under test.
FnIdle ==
  /\ fnArgs = << >>
  /\ fnResult = << >>
  /\ fnDone = FALSE

\* initDspState().  The filter memories (dcMean, hpPrevInput, hpPrevOutput,
\* lpPrevOutput, compressorEnv) are floating-point values the model does not
\* compute: each is written as the number of samples its stage has folded
\* into it.  agcGain is kept in decibels (1 is 0 dB), in ticks of DbTick.
initDspState ==
  [dcMean |-> 0, hpPrevInput |-> 0, hpPrevOutput |-> 0, lpPrevOutput |-> 0,
   compressorEnv |-> 0, agcGain |-> 0, agcEnergyQueue |-> << >>,
   agcEnergyTotal |-> 0, agcSampleTotal |-> 0]

\* No processForTelephony call has been made.
NoDspCall ==
  [calls |-> 0, samples |-> 0, sampleRate |-> 0, stages |-> << >>, peak |-> 0,
   before |-> initDspState]

DspInit ==
  /\ dspState = initDspState
  /\ dspTrace = NoDspCall

\* The order-taking bridge before wss.on('connection') runs for the call.
\* restaurantReady is the state of the promise of that name, waiters the
\* async functions suspended on it, in the order they began to wait.
NoPayload == 0
NewOrderCall ==
  [bridge |-> "new", socketState |-> "OPEN", openaiState |-> "NONE",
   restaurantReady |-> "none", currentRestaurant |-> FALSE,
   openaiReady |-> FALSE, twilioStartReceived |-> FALSE,
   sessionInitialized |-> FALSE, timer |-> "idle", waiters |-> << >>,
   lastSubmitOrderPayload |-> NoPayload, submitOrderCount |-> 0,
   orderSubmitted |-> FALSE, closePc |-> "none",
   \* observers
   nInit |-> 0, written |-> << >>, completed |-> NoPayload]

\* The Gemini bridge when wss.on('connection') has run, and the fields of the
\* GeminiLiveClient that connectGeminiLive will make (clientRef: it exists).
\* thens are the callbacks registered on geminiClientPromise while it is
\* pending, readyWaiters the sendAudioChunk calls suspended on client.ready.
NewGeminiCall ==
  [socketState |-> "OPEN", streamSid |-> Absent, userSpeaking |-> FALSE,
   geminiClientPromise |-> "none", geminiClient |-> FALSE, thens |-> << >>,
   lastSubmitOrderPayload |-> FALSE, closePc |-> "none",
   connectPc |-> "idle", openSeen |-> FALSE, clientRef |-> FALSE,
   readyResolved |-> FALSE, readyWaiters |-> << >>, sessionAcked |-> FALSE,
   engineClosed |-> FALSE, closedAtMs |-> FALSE, sessionClosed |-> FALSE,
   \* observers
   nInitialize |-> 0, nReady |-> 0, nGreeting |-> 0, received |-> << >>,
   handed |-> << >>, forwarded |-> << >>, sent |-> << >>,
   lastEvent |-> "none", bargedIn |-> FALSE]

\* The outbound audio buffers of a new GeminiLiveClient.  The bytes of
\* audioInBuffer are not told apart; each byte the resampler produces is
\* numbered in the order of production (produced counts them).  frames are the
\* chunks of the audio.delta events emitted so far, needed is neededInputBytes
\* of the last call.
NewAudioOut ==
  [audioInBuffer |-> << >>, audio8kBuffer |-> << >>, frames |-> << >>,
   produced |-> 0, needed |-> 0, nCalls |-> 0, nChunks |-> 0]

OtherBridgesInit ==
  /\ orderCall = NewOrderCall
  /\ geminiCall = NewGeminiCall
  /\ audioOut = NewAudioOut

\* The process with no call connected and every module just loaded.
ProcessInit ==
  /\ OtherBridgesInit
  /\ ResampleInit
  /\ TwoCallsInit
  /\ DspInit
  /\ bridge = "new"
  /\ socketState = "OPEN"
  /\ openaiState = "NONE"
  /\ smsConfigured \in BOOLEAN
  /\ streamSid = Absent
  /\ activeResponse = FALSE
  /\ currentResponseId = Absent
  /\ userSpeaking = FALSE
  /\ functionCallBuffer = NoText
  /\ functionCallName = NoName
  /\ functionCallId = Absent
  /\ lastCapturedMessage = FALSE
  /\ messageDispatchStatus = "none"
  /\ openaiReady = FALSE
  /\ twilioStartReceived = FALSE
  /\ sessionInitialized = FALSE
  /\ timer = "idle"
  /\ pendingSms = 0
  /\ lastEvent = Ev("none", Absent)
  /\ sent = << >>
  /\ parsed = NoParse
  /\ createdMax = 0
  /\ ended = {}
  /\ streamed = [c \in CallIds |-> NoText]
  /\ speechPending = FALSE
  /\ scriptPos = 0
  /\ scriptOut = << >>
  /\ nSubmit = 0
  /\ dispatched = << >>
  /\ nInit = 0

\* wss.on('connection') has not run yet for the call.
Init ==
  /\ FnIdle
  /\ ProcessInit

\* ----------------------------------------------------------------- helpers
\* resetFunctionCallState leaves these three values.
ResetBuffer == NoText
ResetName == NoName
ResetId == Absent

\* Characters the accumulator may hold: MaxBuf, and one more for each handler
\* suspended with the text it parsed still in the accumulator, so that a
\* fragment of the next call fits behind it.
BufRoom == MaxBuf + Len(dispatched)

\* appendFunctionCallChunk(message): the three values it leaves.
ChunkName(m) == IF m.name # NoName THEN m.name ELSE functionCallName
ChunkId(m) == IF m.cid # Absent THEN m.cid ELSE functionCallId
ChunkBuffer(m) ==
  IF m.delta # NoText THEN functionCallBuffer \o m.delta
  ELSE IF functionCallBuffer = NoText /\ m.args # NoText THEN m.args
  ELSE functionCallBuffer

\* cancelActiveResponse(): what it sends.
CancelSends ==
  IF ~activeResponse \/ currentResponseId = Absent \/ openaiState # "OPEN"
  THEN << >>
  ELSE <<ResponseCancel(currentResponseId)>>

\* sendClearToTwilio(): what it sends.
ClearSends ==
  IF streamSid = Absent \/ socketState # "OPEN" THEN << >> ELSE <<TwilioClear(streamSid)>>

\* Mutant: the cancel is sent before the clear.
SpeechStartedSendsCancelFirst == CancelSends \o ClearSends

\* handleSpeechStarted(): clear first, then cancel.
SpeechStartedSends == ClearSends \o CancelSends

\* Mutant: forwards without looking at activeResponse.
ForwardSendsIgnoringActive(chunk) ==
  IF streamSid = Absent \/ userSpeaking THEN << >>
  ELSE IF socketState = "OPEN" THEN <<TwilioMedia(streamSid, chunk)>>
  ELSE << >>

\* Mutant: forwards without looking at userSpeaking.
ForwardSendsIgnoringSpeech(chunk) ==
  IF streamSid = Absent \/ ~activeResponse THEN << >>
  ELSE IF socketState = "OPEN" THEN <<TwilioMedia(streamSid, chunk)>>
  ELSE << >>

\* Mutant: forwards without looking at streamSid.
ForwardSendsBeforeStart(chunk) ==
  IF userSpeaking \/ ~activeResponse THEN << >>
  ELSE IF socketState = "OPEN" THEN <<TwilioMedia(streamSid, chunk)>>
  ELSE << >>

\* forwardAudioToTwilio(audioChunk): what it sends.
ForwardSends(chunk) ==
  IF streamSid = Absent \/ userSpeaking \/ ~activeResponse THEN << >>
  ELSE IF socketState = "OPEN" THEN <<TwilioMedia(streamSid, chunk)>>
  ELSE << >>

\* forceResponse(text): what it sends, and activeResponse after it.
ForceSends(which) == IF openaiState # "OPEN" THEN << >> ELSE <<ResponseCreate(which)>>
ForceActive == IF openaiState # "OPEN" THEN activeResponse ELSE TRUE

\* Mutant: no sessionInitialized check.
InitSendsRepeated(ready, started, ostate) ==
  IF ~ready \/ ~started THEN << >>
  ELSE IF ostate # "OPEN" THEN << >>
  ELSE <<SessionUpdate("call"), ResponseCreate("greeting")>>

\* maybeInitSession() called with openaiReady = ready, twilioStartReceived =
\* started and openaiSocket.readyState = ostate: what it sends.  It sets
\* sessionInitialized exactly when it sends.
InitSends(ready, started, ostate) ==
  IF sessionInitialized \/ ~ready \/ ~started THEN << >>
  ELSE IF ostate # "OPEN" THEN << >>
  ELSE <<SessionUpdate("call"), ResponseCreate("greeting")>>

\* The tool output handleCaptureMessage and handleFunctionCallDone send.
ToolOutputSends(cid, result) ==
  IF cid # Absent /\ openaiState = "OPEN" THEN <<FunctionCallOutput(cid, result)>>
  ELSE << >>

HasKind(msgs, kind) == \E i \in 1..Len(msgs) : msgs[i].kind = kind
CountKind(msgs, kind) == Cardinality({i \in 1..Len(msgs) : msgs[i].kind = kind})

\* ----------------------------------------------------------------- actions
\* Variables no engine message changes.
engineFrame ==
  <<bridge, socketState, openaiState, smsConfigured, streamSid, openaiReady,
    twilioStartReceived, sessionInitialized, timer, nInit>>

toolState ==
  <<functionCallBuffer, functionCallName, functionCallId, lastCapturedMessage,
    messageDispatchStatus, pendingSms>>

\* Mutant: without an API key the telephony socket is left open.
ConnectionKeepsLeg(apiKey) ==
  /\ bridge = "new"
  /\ IF apiKey
     THEN /\ bridge' = "wired"
          /\ openaiState' = "CONNECTING"
     ELSE /\ bridge' = "refused"
          /\ UNCHANGED openaiState
  /\ lastEvent' = Ev("connection", Absent)
  /\ parsed' = NoParse
  /\ sent' = << >>
  /\ UNCHANGED <<socketState, smsConfigured, callState, timer, toolState, createdMax,
                 ended, nInit>>

\* wss.on('connection'): connectToOpenAI() returns null without an API key.
Connection(apiKey) ==
  /\ bridge = "new"
  /\ IF apiKey
     THEN /\ bridge' = "wired"
          /\ openaiState' = "CONNECTING"
          /\ UNCHANGED socketState
     ELSE /\ bridge' = "refused"
          /\ socketState' = "CLOSING"
          /\ UNCHANGED openaiState
  /\ lastEvent' = Ev("connection", Absent)
  /\ parsed' = NoParse
  /\ sent' = << >>
  /\ UNCHANGED <<smsConfigured, callState, timer, toolState, createdMax, ended,
                 nInit>>

\* ws.on('open') of connectToOpenAI (registered first: the fallback
\* session.update), then openaiSocket.on('open') of the bridge.
OpenAiOpen ==
  /\ bridge = "wired"
  /\ openaiState = "CONNECTING"
  /\ openaiState' = "OPEN"
  /\ openaiReady' = TRUE
  /\ LET init == InitSends(TRUE, twilioStartReceived, "OPEN")
     IN /\ sent' = <<SessionUpdate("fallback")>> \o init
        /\ sessionInitialized' = (sessionInitialized \/ init # << >>)
        /\ nInit' = IF init # << >> THEN Sat(nInit) ELSE nInit
  /\ timer' = "armed"
  /\ lastEvent' = Ev("open", Absent)
  /\ parsed' = NoParse
  /\ UNCHANGED <<bridge, socketState, smsConfigured, streamSid, activeResponse,
                 currentResponseId, userSpeaking, twilioStartReceived, toolState,
                 createdMax, ended>>

\* Mutant: the timeout sets the flag and does not call maybeInitSession.
StartTimeoutFlagOnly ==
  /\ timer = "armed"
  /\ timer' = "fired"
  /\ twilioStartReceived' = TRUE
  /\ sent' = << >>
  /\ lastEvent' = Ev("timeout", Absent)
  /\ parsed' = NoParse
  /\ UNCHANGED <<bridge, socketState, openaiState, smsConfigured, streamSid,
                 activeResponse, currentResponseId, userSpeaking, openaiReady,
                 sessionInitialized, nInit, toolState, createdMax, ended>>

\* The setTimeout callback armed by openaiSocket.on('open').
StartTimeout ==
  /\ timer = "armed"
  /\ timer' = "fired"
  /\ LET init == IF twilioStartReceived THEN << >>
                 ELSE InitSends(openaiReady, TRUE, openaiState)
     IN /\ sent' = init
        /\ sessionInitialized' = (sessionInitialized \/ init # << >>)
        /\ nInit' = IF init # << >> THEN Sat(nInit) ELSE nInit
  /\ twilioStartReceived' = TRUE
  /\ lastEvent' = Ev("timeout", Absent)
  /\ parsed' = NoParse
  /\ UNCHANGED <<bridge, socketState, openaiState, smsConfigured, streamSid,
                 activeResponse, currentResponseId, userSpeaking, openaiReady,
                 toolState, createdMax, ended>>

\* Mutant: the frame is appended twice.
MediaSendsTwice(payload) ==
  IF payload # Absent /\ openaiState = "OPEN"
  THEN <<AudioAppend(payload), AudioAppend(payload)>> ELSE << >>

\* case 'media' of handleTwilioMessage: what it sends.
MediaSends(payload) ==
  IF payload # Absent /\ openaiState = "OPEN" THEN <<AudioAppend(payload)>> ELSE << >>

\* handleTwilioMessage(data): socket.on('message').
HandleTwilioMessage(m) ==
  /\ bridge = "wired"
  /\ socketState = "OPEN"
  /\ lastEvent' = Ev(m.event, m.arg)
  /\ parsed' = NoParse
  /\ CASE m.event = "media" ->
            /\ sent' = MediaSends(m.arg)
            /\ UNCHANGED <<streamSid, twilioStartReceived, sessionInitialized, nInit>>
       [] m.event = "start" ->
            LET init == InitSends(openaiReady, TRUE, openaiState)
            IN /\ streamSid' = IF m.arg # Absent THEN m.arg ELSE streamSid
               /\ twilioStartReceived' = TRUE
               /\ sent' = init
               /\ sessionInitialized' = (sessionInitialized \/ init # << >>)
               /\ nInit' = IF init # << >> THEN Sat(nInit) ELSE nInit
       [] OTHER ->
            /\ sent' = << >>
            /\ UNCHANGED <<streamSid, twilioStartReceived, sessionInitialized, nInit>>
  /\ UNCHANGED <<bridge, socketState, openaiState, smsConfigured, activeResponse,
                 currentResponseId, userSpeaking, openaiReady, timer, toolState,
                 createdMax, ended>>

\* The telephony peer starts the closing handshake: readyState leaves OPEN
\* before the 'close' event is delivered.
TwilioClosing ==
  /\ bridge = "wired"
  /\ socketState = "OPEN"
  /\ socketState' = "CLOSING"
  /\ lastEvent' = Ev("twilio.closing", Absent)
  /\ parsed' = NoParse
  /\ sent' = << >>
  /\ UNCHANGED <<bridge, openaiState, smsConfigured, callState, timer, toolState,
                 createdMax, ended, nInit>>

\* socket.on('close'): closes the engine socket only if it is OPEN.
TwilioClose ==
  /\ bridge = "wired"
  /\ socketState \in {"OPEN", "CLOSING"}
  /\ socketState' = "CLOSED"
  /\ openaiState' = IF openaiState = "OPEN" THEN "CLOSING" ELSE openaiState
  /\ lastEvent' = Ev("twilio.close", Absent)
  /\ parsed' = NoParse
  /\ sent' = << >>
  /\ UNCHANGED <<bridge, smsConfigured, callState, timer, toolState, createdMax,
                 ended, nInit>>

\* The engine socket closes (an error before open, the peer, or the end of
\* the closing handshake): ws.on('close') / ws.on('error') only log.
OpenAiClose ==
  /\ bridge = "wired"
  /\ openaiState \in {"CONNECTING", "OPEN", "CLOSING"}
  /\ openaiState' = "CLOSED"
  /\ lastEvent' = Ev("openai.close", Absent)
  /\ parsed' = NoParse
  /\ sent' = << >>
  /\ UNCHANGED <<bridge, socketState, smsConfigured, callState, timer, toolState,
                 createdMax, ended, nInit>>

\* The engine numbers its responses: response.created names a fresh id, an
\* end event the id of a response created before.
EngineCanSend(m) ==
  /\ m.type = "response.created" => m.rid = createdMax + 1
  /\ m.type \in EndTypes => m.rid \in 1..createdMax

\* case 'input_audio_buffer.speech_started': handleSpeechStarted().
SpeechStarted ==
  /\ userSpeaking' = TRUE
  /\ sent' = SpeechStartedSends
  /\ parsed' = NoParse
  /\ UNCHANGED <<activeResponse, currentResponseId, toolState, createdMax, ended>>

\* Mutant: response.created leaves userSpeaking as it is.
ResponseCreatedKeepsSpeaking(m) ==
  /\ currentResponseId' = IF m.rid # Absent THEN m.rid ELSE currentResponseId
  /\ activeResponse' = TRUE
  /\ createdMax' = IF m.rid # Absent THEN m.rid ELSE createdMax
  /\ sent' = << >>
  /\ parsed' = NoParse
  /\ UNCHANGED <<userSpeaking, toolState, ended>>

\* case 'response.created'.
ResponseCreated(m) ==
  /\ currentResponseId' = IF m.rid # Absent THEN m.rid ELSE currentResponseId
  /\ activeResponse' = TRUE
  /\ userSpeaking' = FALSE
  /\ createdMax' = IF m.rid # Absent THEN m.rid ELSE createdMax
  /\ sent' = << >>
  /\ parsed' = NoParse
  /\ UNCHANGED <<toolState, ended>>

\* Mutant: only the end of the current response clears the flag.
ResponseEndOfCurrent(m) ==
  /\ activeResponse' = IF m.rid = currentResponseId THEN FALSE ELSE activeResponse
  /\ ended' = IF m.rid # Absent THEN ended \cup {m.rid} ELSE ended
  /\ sent' = << >>
  /\ parsed' = NoParse
  /\ UNCHANGED <<currentResponseId, userSpeaking, toolState, createdMax>>

\* case 'response.output_audio.done' / 'response.done' / 'response.cancelled'.
ResponseEnd(m) ==
  /\ activeResponse' = FALSE
  /\ ended' = IF m.rid # Absent THEN ended \cup {m.rid} ELSE ended
  /\ sent' = << >>
  /\ parsed' = NoParse
  /\ UNCHANGED <<currentResponseId, userSpeaking, toolState, createdMax>>

\* case 'response.output_audio.delta'.
AudioDelta(m) ==
  /\ sent' = IF m.chunk # Absent THEN ForwardSends(m.chunk) ELSE << >>
  /\ parsed' = NoParse
  /\ UNCHANGED <<activeResponse, currentResponseId, userSpeaking, toolState, createdMax,
                 ended>>

\* handleFunctionCallDone() after appendFunctionCallChunk(m), up to the await
\* of the SMS send.  name, id and buf are the accumulator after the append.
FunctionCallDone(name, id, buf) ==
  IF name = NoName \/ buf = NoText
  THEN \* nothing to parse: reset
       /\ parsed' = NoParse
       /\ sent' = << >>
       /\ functionCallBuffer' = ResetBuffer
       /\ functionCallName' = ResetName
       /\ functionCallId' = ResetId
       /\ UNCHANGED <<activeResponse, lastCapturedMessage, messageDispatchStatus,
                      pendingSms>>
  ELSE /\ parsed' = buf
       /\ IF ~JsonValid(buf)
          THEN \* JSON.parse throws: catch, forceResponse, reset
               /\ sent' = ForceSends("repeat")
               /\ activeResponse' = ForceActive
               /\ functionCallBuffer' = ResetBuffer
               /\ functionCallName' = ResetName
               /\ functionCallId' = ResetId
               /\ UNCHANGED <<lastCapturedMessage, messageDispatchStatus, pendingSms>>
          ELSE IF name # CaptureMessage
          THEN \* unsupported tool
               /\ sent' = ToolOutputSends(id, "unsupported")
               /\ functionCallBuffer' = ResetBuffer
               /\ functionCallName' = ResetName
               /\ functionCallId' = ResetId
               /\ UNCHANGED <<activeResponse, lastCapturedMessage,
                              messageDispatchStatus, pendingSms>>
          ELSE IF ~HasMessageBody(buf)
          THEN \* handleCaptureMessage: no messageBody
               /\ sent' = ForceSends("restate")
               /\ activeResponse' = ForceActive
               /\ functionCallBuffer' = ResetBuffer
               /\ functionCallName' = ResetName
               /\ functionCallId' = ResetId
               /\ UNCHANGED <<lastCapturedMessage, messageDispatchStatus, pendingSms>>
          ELSE \* await sendSmsToOwner(smsBody): the handler is suspended, until
               \* client.messages.create settles or, with the configuration
               \* missing, until the next microtask; a message the socket
               \* delivers in the same tick is handled in between
               /\ pendingSms < MaxPending
               /\ lastCapturedMessage' = TRUE
               /\ pendingSms' = pendingSms + 1
               /\ sent' = << >>
               /\ functionCallBuffer' = buf
               /\ functionCallName' = name
               /\ functionCallId' = id
               /\ UNCHANGED <<activeResponse, messageDispatchStatus>>

\* Mutant: a delta that completes a valid JSON text is acted on at once.
ArgumentsDeltaEager(m) ==
  /\ Len(ChunkBuffer(m)) <= BufRoom
  /\ IF JsonValid(ChunkBuffer(m))
     THEN FunctionCallDone(ChunkName(m), ChunkId(m), ChunkBuffer(m))
     ELSE /\ functionCallName' = ChunkName(m)
          /\ functionCallId' = ChunkId(m)
          /\ functionCallBuffer' = ChunkBuffer(m)
          /\ sent' = << >>
          /\ parsed' = NoParse
          /\ UNCHANGED <<activeResponse, lastCapturedMessage, messageDispatchStatus,
                         pendingSms>>
  /\ UNCHANGED <<currentResponseId, userSpeaking, createdMax, ended>>

\* case 'response.function_call_arguments.delta': appendFunctionCallChunk(m).
ArgumentsDelta(m) ==
  /\ Len(ChunkBuffer(m)) <= BufRoom
  /\ functionCallName' = ChunkName(m)
  /\ functionCallId' = ChunkId(m)
  /\ functionCallBuffer' = ChunkBuffer(m)
  /\ sent' = << >>
  /\ parsed' = NoParse
  /\ UNCHANGED <<activeResponse, currentResponseId, userSpeaking, lastCapturedMessage,
                 messageDispatchStatus, pendingSms, createdMax, ended>>

\* case 'response.function_call_arguments.done': appendFunctionCallChunk(m),
\* then handleFunctionCallDone().
ArgumentsDone(m) ==
  /\ Len(ChunkBuffer(m)) <= BufRoom
  /\ FunctionCallDone(ChunkName(m), ChunkId(m), ChunkBuffer(m))
  /\ UNCHANGED <<currentResponseId, userSpeaking, createdMax, ended>>

\* Mutant: a message that is not handled ends the active response.
IgnoredEndsResponse ==
  /\ sent' = << >>
  /\ parsed' = NoParse
  /\ activeResponse' = FALSE
  /\ UNCHANGED <<currentResponseId, userSpeaking, toolState, createdMax, ended>>

\* Every other case (error, session.*, ...) and data JSON.parse rejects.
Ignored ==
  /\ sent' = << >>
  /\ parsed' = NoParse
  /\ UNCHANGED <<activeResponse, currentResponseId, userSpeaking, toolState, createdMax,
                 ended>>

\* handleOpenAiMessage(data): openaiSocket.on('message').  Messages still
\* arrive while the socket is CLOSING.
HandleOpenAiMessage(m) ==
  /\ bridge = "wired"
  /\ openaiState \in {"OPEN", "CLOSING"}
  /\ EngineCanSend(m)
  /\ lastEvent' = Ev(IF m.type \in EndTypes THEN "response.end" ELSE m.type,
                     IF m.chunk # Absent THEN m.chunk ELSE m.cid)
  /\ CASE m.type = "input_audio_buffer.speech_started" -> SpeechStarted
       [] m.type = "response.created" -> ResponseCreated(m)
       [] m.type \in EndTypes -> ResponseEnd(m)
       [] m.type = "response.output_audio.delta" -> AudioDelta(m)
       [] m.type = "response.function_call_arguments.delta" -> ArgumentsDelta(m)
       [] m.type = "response.function_call_arguments.done" -> ArgumentsDone(m)
       [] OTHER -> Ignored
  /\ UNCHANGED engineFrame

\* Mutant: the caller is always told that the message was passed along.
SmsSettledAlwaysThanks(delivered) ==
  /\ bridge = "wired"
  /\ pendingSms > 0
  /\ delivered => smsConfigured
  /\ pendingSms' = pendingSms - 1
  /\ messageDispatchStatus' = IF delivered THEN "delivered" ELSE "failed"
  /\ sent' = ToolOutputSends(functionCallId, IF delivered THEN "delivered" ELSE "failed")
               \o ForceSends("captured")
  /\ activeResponse' = ForceActive
  /\ functionCallBuffer' = ResetBuffer
  /\ functionCallName' = ResetName
  /\ functionCallId' = ResetId
  /\ lastEvent' = Ev("sms.settled", Absent)
  /\ parsed' = NoParse
  /\ UNCHANGED <<currentResponseId, userSpeaking, lastCapturedMessage, createdMax,
                 ended>>
  /\ UNCHANGED engineFrame

\* sendSmsToOwner settles (with the configuration missing it returns
\* delivered: false without calling the provider) and handleCaptureMessage
\* resumes after its await, then handleFunctionCallDone resets the
\* accumulator.
SmsSettled(delivered) ==
  /\ bridge = "wired"
  /\ pendingSms > 0
  /\ delivered => smsConfigured
  /\ pendingSms' = pendingSms - 1
  /\ messageDispatchStatus' = IF delivered THEN "delivered" ELSE "failed"
  /\ sent' = ToolOutputSends(functionCallId, IF delivered THEN "delivered" ELSE "failed")
               \o ForceSends(IF delivered THEN "captured" ELSE "delayed")
  /\ activeResponse' = ForceActive
  /\ functionCallBuffer' = ResetBuffer
  /\ functionCallName' = ResetName
  /\ functionCallId' = ResetId
  /\ lastEvent' = Ev("sms.settled", Absent)
  /\ parsed' = NoParse
  /\ UNCHANGED <<currentResponseId, userSpeaking, lastCapturedMessage, createdMax,
                 ended>>
  /\ UNCHANGED engineFrame

\* ---------------------------------------------------------- specifications
\* Flow control of one call: every telephony and engine event; tool calls
\* arrive with their complete arguments in the done event.
IsToolMsg(m) ==
  m.type \in {"response.function_call_arguments.delta",
              "response.function_call_arguments.done"}
FlowMsgs ==
  {m \in EngineMsgs : ~IsToolMsg(m)}
    \cup {EMsg("response.function_call_arguments.done", Absent, Absent, CaptureMessage,
               1, NoText, a) : a \in FullTexts \ {NoText}}

\* Whether the caller started speaking and the engine has not created a
\* response since.
SpeechObserved(m) ==
  speechPending' =
    IF m.type = "input_audio_buffer.speech_started" THEN TRUE
    ELSE IF m.type = "response.created" THEN FALSE
    ELSE speechPending

FlowEngineMessage ==
  \E m \in FlowMsgs :
    /\ HandleOpenAiMessage(m)
    /\ SpeechObserved(m)
    /\ UNCHANGED <<streamed, scriptPos, scriptOut, nSubmit, dispatched, libVars>>

Next ==
  \/ (\E k \in BOOLEAN : Connection(k)) /\ UNCHANGED auxVars
  \/ OpenAiOpen /\ UNCHANGED auxVars
  \/ StartTimeout /\ UNCHANGED auxVars
  \/ (\E m \in TwilioMsgs : HandleTwilioMessage(m)) /\ UNCHANGED auxVars
  \/ TwilioClosing /\ UNCHANGED auxVars
  \/ TwilioClose /\ UNCHANGED auxVars
  \/ OpenAiClose /\ UNCHANGED auxVars
  \/ FlowEngineMessage
  \/ (\E d \in BOOLEAN : SmsSettled(d)) /\ UNCHANGED auxVars

Spec == Init /\ [][Next]_vars

\* Session set-up under every telephony event and every engine event that is
\* not a tool call (tool calls touch neither the sockets nor the
\* initialization flags).  The timeout armed by setTimeout always fires: the
\* event loop runs it.
LiveEngineMessage ==
  \E m \in EngineMsgs :
    /\ ~IsToolMsg(m)
    /\ HandleOpenAiMessage(m)
    /\ SpeechObserved(m)
    /\ UNCHANGED <<streamed, scriptPos, scriptOut, nSubmit, dispatched, libVars>>

NextLive ==
  \/ (\E k \in BOOLEAN : Connection(k)) /\ UNCHANGED auxVars
  \/ OpenAiOpen /\ UNCHANGED auxVars
  \/ StartTimeout /\ UNCHANGED auxVars
  \/ (\E m \in TwilioMsgs : HandleTwilioMessage(m)) /\ UNCHANGED auxVars
  \/ TwilioClosing /\ UNCHANGED auxVars
  \/ TwilioClose /\ UNCHANGED auxVars
  \/ OpenAiClose /\ UNCHANGED auxVars
  \/ LiveEngineMessage

SpecLive ==
  Init /\ [][NextLive]_vars /\ WF_vars(StartTimeout /\ UNCHANGED auxVars)

\* Tool calls: the engine streams argument fragments and completion events
\* for its tool calls while the telephony leg is silent.  The engine names
\* the call in every tool message; a done event carries no fragment of its
\* own.
ToolMsgs ==
  {m \in EngineMsgs :
     /\ IsToolMsg(m)
     /\ m.cid # Absent
     /\ m.type = "response.function_call_arguments.done" => m.delta = NoText}

ToolEngineMessage ==
  \E m \in ToolMsgs :
    /\ HandleOpenAiMessage(m)
    /\ UNCHANGED auxVars

NextTool ==
  \/ (\E k \in BOOLEAN : Connection(k)) /\ UNCHANGED auxVars
  \/ OpenAiOpen /\ UNCHANGED auxVars
  \/ TwilioClose /\ UNCHANGED auxVars
  \/ OpenAiClose /\ UNCHANGED auxVars
  \/ ToolEngineMessage
  \/ (\E d \in BOOLEAN : SmsSettled(d)) /\ UNCHANGED auxVars

SpecTool == Init /\ [][NextTool]_vars

\* Tool-call assembly: the same events, with the text the engine streamed for
\* each call observed.
RECURSIVE SumLen(_, _)
SumLen(f, ids) ==
  IF ids = {} THEN 0
  ELSE LET c == CHOOSE x \in ids : TRUE IN Len(f[c]) + SumLen(f, ids \ {c})

\* The text the engine has streamed for each call once m is delivered.  The
\* complete arguments of a done event count when nothing was streamed for
\* the call before.
StreamedAfter(m) ==
  LET s == streamed[m.cid] \o m.delta
  IN [streamed EXCEPT ![m.cid] = IF s = NoText THEN m.args ELSE s]

\* The complete arguments of a done event, if it carries them, are the text
\* the engine streamed for that call.
EngineStreams(m) ==
  /\ SumLen(StreamedAfter(m), CallIds) <= MaxBuf
  /\ m.args # NoText => StreamedAfter(m)[m.cid] = m.args

AssemblyEngineMessage ==
  \E m \in ToolMsgs :
    /\ EngineStreams(m)
    /\ HandleOpenAiMessage(m)
    /\ streamed' = StreamedAfter(m)
    /\ UNCHANGED <<speechPending, scriptPos, scriptOut, nSubmit, dispatched, libVars>>

NextAssembly ==
  \/ (\E k \in BOOLEAN : Connection(k)) /\ UNCHANGED auxVars
  \/ OpenAiOpen /\ UNCHANGED auxVars
  \/ TwilioClose /\ UNCHANGED auxVars
  \/ OpenAiClose /\ UNCHANGED auxVars
  \/ AssemblyEngineMessage
  \/ (\E d \in BOOLEAN : SmsSettled(d)) /\ UNCHANGED auxVars

SpecAssembly == Init /\ [][NextAssembly]_vars

\* Message dispatch: the engine completes capture_message calls, each done
\* event carrying its complete arguments; every send handed to the SMS
\* provider (client.messages.create) is counted.
SubmitMsgs ==
  {m \in ToolMsgs :
     /\ m.type = "response.function_call_arguments.done"
     /\ m.name = CaptureMessage
     /\ m.args # NoText}

SubmitEngineMessage ==
  \E m \in SubmitMsgs :
    /\ HandleOpenAiMessage(m)
    /\ nSubmit' = IF pendingSms' > pendingSms /\ smsConfigured
                  THEN Sat(nSubmit) ELSE nSubmit
    /\ UNCHANGED <<streamed, speechPending, scriptPos, scriptOut, dispatched, libVars>>

NextSubmit ==
  \/ (\E k \in BOOLEAN : Connection(k)) /\ UNCHANGED auxVars
  \/ OpenAiOpen /\ UNCHANGED auxVars
  \/ (\E m \in TwilioMsgs : HandleTwilioMessage(m)) /\ UNCHANGED auxVars
  \/ TwilioClose /\ UNCHANGED auxVars
  \/ OpenAiClose /\ UNCHANGED auxVars
  \/ SubmitEngineMessage
  \/ (\E d \in BOOLEAN : SmsSettled(d)) /\ UNCHANGED auxVars

SpecSubmit == Init /\ [][NextSubmit]_vars

\* Teardown: the lifecycle of the two sockets.  A connection attempt of the
\* engine socket is resolved (it opens unless it fails first), a closing
\* handshake the bridge started completes, and an armed timeout fires; the
\* engine peer is not obliged to close a connection that is open.
HandshakeEnds == openaiState = "CLOSING" /\ OpenAiClose

NextTeardown ==
  \/ (\E k \in BOOLEAN : Connection(k)) /\ UNCHANGED auxVars
  \/ OpenAiOpen /\ UNCHANGED auxVars
  \/ StartTimeout /\ UNCHANGED auxVars
  \/ (\E m \in TwilioMsgs : HandleTwilioMessage(m)) /\ UNCHANGED auxVars
  \/ TwilioClosing /\ UNCHANGED auxVars
  \/ TwilioClose /\ UNCHANGED auxVars
  \/ OpenAiClose /\ UNCHANGED auxVars

SpecTeardown ==
  /\ Init
  /\ [][NextTeardown]_vars
  /\ WF_vars(OpenAiOpen /\ UNCHANGED auxVars)
  /\ WF_vars(HandshakeEnds /\ UNCHANGED auxVars)
  /\ WF_vars(StartTimeout /\ UNCHANGED auxVars)

\* The barge-in scenario: the engine sends exactly the five events of the
\* script, each while the start signal has been received and both sockets are
\* open; the telephony leg sends what it likes in between.
Script ==
  <<Plain("response.created", 1),
    EMsg("response.output_audio.delta", Absent, 1, NoName, Absent, NoText, NoText),
    Plain("input_audio_buffer.speech_started", Absent),
    Plain("response.created", 2),
    EMsg("response.output_audio.delta", Absent, 2, NoName, Absent, NoText, NoText)>>

ScriptStep ==
  /\ scriptPos < Len(Script)
  /\ twilioStartReceived
  /\ streamSid # Absent
  /\ socketState = "OPEN"
  /\ openaiState = "OPEN"
  /\ HandleOpenAiMessage(Script[scriptPos + 1])
  /\ scriptPos' = scriptPos + 1
  /\ scriptOut' = Append(scriptOut, sent')
  /\ UNCHANGED <<streamed, speechPending, nSubmit, dispatched, libVars>>

NextBargeIn ==
  \/ (\E k \in BOOLEAN : Connection(k)) /\ UNCHANGED auxVars
  \/ OpenAiOpen /\ UNCHANGED auxVars
  \/ StartTimeout /\ UNCHANGED auxVars
  \/ (\E m \in TwilioMsgs : HandleTwilioMessage(m)) /\ UNCHANGED auxVars
  \/ TwilioClosing /\ UNCHANGED auxVars
  \/ TwilioClose /\ UNCHANGED auxVars
  \/ OpenAiClose /\ UNCHANGED auxVars
  \/ ScriptStep

SpecBargeIn == Init /\ [][NextBargeIn]_vars

\* --------------------------------------------------------------- resampler
\* Resample calls made in one process.
MaxCalls == 2

\* How a spawned ffmpeg ends: the binary is absent (ENOENT), it exits
\* non-zero, it exits 0 without output, it exits 0 with output, or it never
\* exits.
ProbeOutcomes == {"absent", "fail", "ok", "hang"}
RunOutcomes == {"absent", "fail", "empty", "ok", "hang"}
Buffers == {"empty", "block"}
Spawned(what, mode, outcome) == [what |-> what, mode |-> mode, outcome |-> outcome]

\* hasFfmpegSync(): the cache after the call, what it spawned, and whether
\* spawnSync never returned.
HasFfmpegSync(checked, usable, po) ==
  IF checked
  THEN [checked |-> TRUE, usable |-> usable, spawns |-> << >>, hung |-> FALSE]
  ELSE IF po = "hang"
  THEN [checked |-> FALSE, usable |-> usable,
        spawns |-> <<Spawned("probe", "sync", po)>>, hung |-> TRUE]
  ELSE [checked |-> TRUE, usable |-> (po = "ok"),
        spawns |-> <<Spawned("probe", "sync", po)>>, hung |-> FALSE]

\* resampleWithFfmpegSync(): stdout if status is 0 and stdout is not empty.
ResampleWithFfmpegSync(ro) == IF ro = "ok" THEN "ffmpeg" ELSE "null"

\* resamplePcm16Best(pcmBuffer, fromRate, toRate), a synchronous function:
\* the cache it leaves, what it spawned, what it returned, or that it hung.
ResamplePcm16Best(buf, sameRate, checked, usable, po, ro) ==
  LET asis == [checked |-> checked, usable |-> usable, spawns |-> << >>,
               hung |-> FALSE]
      h == HasFfmpegSync(checked, usable, po)
      run == <<Spawned("run", "sync", ro)>>
  IN IF buf = "empty" THEN asis @@ [result |-> "empty"]
     ELSE IF sameRate THEN asis @@ [result |-> "copy"]
     ELSE IF h.hung THEN h @@ [result |-> "none"]
     ELSE IF ~h.usable THEN h @@ [result |-> "sinc"]
     ELSE IF ro = "hang"
     THEN [h EXCEPT !.spawns = @ \o run, !.hung = TRUE] @@ [result |-> "none"]
     ELSE [h EXCEPT !.spawns = @ \o run]
            @@ [result |-> IF ResampleWithFfmpegSync(ro) = "ffmpeg"
                           THEN "ffmpeg" ELSE "sinc"]

HasProbe(spawns) == \E i \in 1..Len(spawns) : spawns[i].what = "probe"

\* The process after resamplePcm16Best ran as r, given what the call had
\* spawned before.
BestReturns(r, before) ==
  /\ ffmpegChecked' = r.checked
  /\ ffmpegUsable' = r.usable
  /\ rsSpawns' = before \o r.spawns
  /\ rsPc' = IF r.hung THEN "hung" ELSE "done"
  /\ rsResult' = r.result
  /\ nProbe' = IF HasProbe(r.spawns) THEN Sat(nProbe) ELSE nProbe

CanCall == rsPc \in {"idle", "done"} /\ nCalls < MaxCalls

\* A call of resamplePcm16Best from the code that forwards engine audio.
ResampleBestCall(buf, sameRate, po, ro) ==
  /\ CanCall
  /\ rsEntry' = "best"
  /\ nCalls' = nCalls + 1
  /\ BestReturns(ResamplePcm16Best(buf, sameRate, ffmpegChecked, ffmpegUsable, po, ro),
                 << >>)

\* resampleTo8k up to its first await: ffmpegResample spawns ffmpeg -version.
To8kStart(buf, sameRate) ==
  /\ CanCall
  /\ rsEntry' = "to8k"
  /\ nCalls' = nCalls + 1
  /\ rsSpawns' = << >>
  /\ IF buf = "empty" \/ sameRate
     THEN /\ rsPc' = "done"
          /\ rsResult' = IF buf = "empty" THEN "empty" ELSE "copy"
          /\ UNCHANGED nProbe
     ELSE /\ rsPc' = "probing"
          /\ rsResult' = "none"
          /\ nProbe' = Sat(nProbe)
  /\ UNCHANGED <<ffmpegChecked, ffmpegUsable>>

\* ffmpegAvailable() settles: true if the probe exited with code 0.
FfmpegAvailable(po) == po = "ok"

\* The probe of ffmpegResample ends: it spawns the resampling ffmpeg, or
\* returns null and resampleTo8k falls back to resamplePcm16Best.
To8kProbed(po, po2, ro2) ==
  /\ rsPc = "probing"
  /\ LET probe == <<Spawned("probe", "async", po)>>
     IN IF po = "hang"
        THEN /\ rsPc' = "hung"
             /\ rsSpawns' = rsSpawns \o probe
             /\ UNCHANGED <<ffmpegChecked, ffmpegUsable, rsResult, nProbe>>
        ELSE IF FfmpegAvailable(po)
        THEN /\ rsPc' = "running"
             /\ rsSpawns' = rsSpawns \o probe
             /\ UNCHANGED <<ffmpegChecked, ffmpegUsable, rsResult, nProbe>>
        ELSE BestReturns(ResamplePcm16Best("block", FALSE, ffmpegChecked,
                                           ffmpegUsable, po2, ro2),
                         rsSpawns \o probe)
  /\ UNCHANGED <<rsEntry, nCalls>>

\* How the promise of ffmpegResample settles.
FfmpegResampleSettles(ro) ==
  CASE ro = "ok" -> "output"
    [] ro = "empty" -> "nothing"
    [] ro = "hang" -> "pending"
    [] OTHER -> "rejected"

\* Mutant: resampleTo8k without its try/catch.
To8kNoCatch(settled) ==
  CASE settled = "output" -> "return"
    [] settled = "rejected" -> "raise"
    [] OTHER -> "fallback"

\* The try/catch of resampleTo8k around await ffmpegResample(...).
To8kCatch(settled) ==
  CASE settled = "output" -> "return"
    [] OTHER -> "fallback"

\* The resampling ffmpeg of ffmpegResample ends.
To8kRan(ro, po2, ro2) ==
  /\ rsPc = "running"
  /\ LET run == <<Spawned("run", "async", ro)>>
         settled == FfmpegResampleSettles(ro)
         next == To8kCatch(settled)
     IN IF settled = "pending"
        THEN /\ rsPc' = "hung"
             /\ rsSpawns' = rsSpawns \o run
             /\ UNCHANGED <<ffmpegChecked, ffmpegUsable, rsResult, nProbe>>
        ELSE IF next = "fallback"
        THEN BestReturns(ResamplePcm16Best("block", FALSE, ffmpegChecked,
                                           ffmpegUsable, po2, ro2),
                         rsSpawns \o run)
        ELSE /\ rsPc' = "done"
             /\ rsResult' = IF next = "return" THEN "ffmpeg" ELSE "raised"
             /\ rsSpawns' = rsSpawns \o run
             /\ UNCHANGED <<ffmpegChecked, ffmpegUsable, nProbe>>
  /\ UNCHANGED <<rsEntry, nCalls>>

notResample == <<bridgeVars, callAux, twoCallVars, fnVars, dspVars, otherBridgeVars>>

ProbeSettles ==
  (\E po \in ProbeOutcomes, po2 \in ProbeOutcomes, ro2 \in RunOutcomes :
     To8kProbed(po, po2, ro2)) /\ UNCHANGED notResample

RunSettles ==
  (\E ro \in RunOutcomes, po2 \in ProbeOutcomes, ro2 \in RunOutcomes :
     To8kRan(ro, po2, ro2)) /\ UNCHANGED notResample

NextResample ==
  \/ (\E buf \in Buffers, same \in BOOLEAN, po \in ProbeOutcomes, ro \in RunOutcomes :
        ResampleBestCall(buf, same, po, ro)) /\ UNCHANGED notResample
  \/ (\E buf \in Buffers, same \in BOOLEAN : To8kStart(buf, same))
       /\ UNCHANGED notResample
  \/ ProbeSettles
  \/ RunSettles

SpecResample == Init /\ [][NextResample]_vars

\* The event loop delivers the exit of a subprocess once it has exited.
SpecResampleLive == SpecResample /\ WF_vars(ProbeSettles) /\ WF_vars(RunSettles)

\* --------------------------------------------------------------- two calls
\* Blocks of engine audio a call conditions.
MaxBlocks == 1

\* Mutant: the call state lives at module level, one copy for all calls.
WriteAllCalls(c, rec) == [d \in CallNames |-> rec]

\* The variables of a call are declared inside its connection handler (and
\* in its client instance): a handler of call c writes the copy of c.
WriteCall(c, rec) == [calls EXCEPT ![c] = rec]

\* A telephony or engine event handled for call c.
CallEvent(c, type) ==
  LET me == calls[c]
  IN /\ CASE type = "start" ->
               calls' = WriteCall(c, [me EXCEPT !.streamSid = c])
          [] type = "response.created" ->
               calls' = WriteCall(c, [me EXCEPT !.activeResponse = TRUE,
                                                !.userSpeaking = FALSE])
          [] type = "speech_started" ->
               calls' = WriteCall(c, [me EXCEPT !.userSpeaking = TRUE])
          [] type = "response.end" ->
               calls' = WriteCall(c, [me EXCEPT !.activeResponse = FALSE])
          [] type = "arguments.delta" ->
               /\ me.functionCallBuffer = NoText
               /\ calls' = WriteCall(c, [me EXCEPT !.functionCallBuffer = <<"{">>])
          [] OTHER ->
               calls' = WriteCall(c, [me EXCEPT !.functionCallBuffer = ResetBuffer])
     /\ actor' = c
     /\ UNCHANGED <<ffmpegChecked, ffmpegUsable>>

CallEventTypes ==
  {"start", "response.created", "speech_started", "response.end", "arguments.delta",
   "arguments.done"}

\* A block of engine audio of call c is conditioned with the call's own
\* Conditioner state and resampled by resamplePcm16Best; the subprocesses
\* end (a subprocess that hangs stops the whole process).
CallAudio(c, po, ro) ==
  LET me == calls[c]
      r == ResamplePcm16Best("block", FALSE, ffmpegChecked, ffmpegUsable, po, ro)
  IN /\ po # "hang" /\ ro # "hang"
     /\ me.dspBlocks < MaxBlocks
     /\ calls' = WriteCall(c, [me EXCEPT !.dspBlocks = @ + 1,
                                         !.out = r.result,
                                         !.probed = @ \/ HasProbe(r.spawns)])
     /\ ffmpegChecked' = r.checked
     /\ ffmpegUsable' = r.usable
     /\ actor' = c

twoCallFrame ==
  <<bridgeVars, callAux, rsEntry, rsPc, rsResult, rsSpawns, nProbe, nCalls, fnVars,
    dspVars, otherBridgeVars>>

NextTwoCalls ==
  \/ (\E c \in CallNames, t \in CallEventTypes : CallEvent(c, t))
       /\ UNCHANGED twoCallFrame
  \/ (\E c \in CallNames, po \in ProbeOutcomes, ro \in RunOutcomes : CallAudio(c, po, ro))
       /\ UNCHANGED twoCallFrame

SpecTwoCalls == Init /\ [][NextTwoCalls]_vars

\* ----------------------------------------------------------------- framing
TWILIO_FRAME_SAMPLES == 160
TWILIO_FRAME_BYTES == TWILIO_FRAME_SAMPLES

\* Sizes of the buffers and frames tried, and the bytes they hold.
MaxChunkLen == 4
MaxFrameSize == 3
MuBytes == {0, 255}

\* The for loop of chunkMulawFrames from offset on.
RECURSIVE ChunkLoop(_, _, _, _)
ChunkLoop(muBuffer, frameSize, offset, frames) ==
  IF offset + frameSize <= Len(muBuffer)
  THEN ChunkLoop(muBuffer, frameSize, offset + frameSize,
                 Append(frames, SubSeq(muBuffer, offset + 1, offset + frameSize)))
  ELSE frames

\* Mutant: the trailing partial frame is kept.
ChunkKeepsTail(muBuffer, frameSize) ==
  LET whole == ChunkLoop(muBuffer, frameSize, 0, << >>)
      used == Len(whole) * frameSize
  IN IF used < Len(muBuffer)
     THEN Append(whole, SubSeq(muBuffer, used + 1, Len(muBuffer)))
     ELSE whole

\* chunkMulawFrames(muBuffer, frameSize = TWILIO_FRAME_BYTES).
chunkMulawFrames(muBuffer, frameSize) == ChunkLoop(muBuffer, frameSize, 0, << >>)

\* A buffer of n bytes, each byte telling its place.
Ramp(n) == [i \in 1..n |-> (i - 1) % 256]

\* Short buffers of every content, cut at every small frame size and at the
\* default one; the buffers of three frames and of three frames and twenty
\* bytes, cut at the default frame size.
ShortBuffers == UNION {[1..n -> MuBytes] : n \in 0..MaxChunkLen}
LongBuffers == {Ramp(3 * TWILIO_FRAME_BYTES), Ramp(3 * TWILIO_FRAME_BYTES + 20)}
FrameSizes == (1..MaxFrameSize) \cup {TWILIO_FRAME_BYTES}

ChunkArgs ==
  {<<b, n>> : b \in ShortBuffers, n \in FrameSizes}
    \cup {<<b, TWILIO_FRAME_BYTES>> : b \in LongBuffers}

InitChunk ==
  /\ ProcessInit
  /\ fnArgs \in ChunkArgs
  /\ fnResult = << >>
  /\ fnDone = FALSE

ChunkCall ==
  /\ ~fnDone
  /\ fnResult' = chunkMulawFrames(fnArgs[1], fnArgs[2])
  /\ fnDone' = TRUE
  /\ UNCHANGED <<fnArgs, bridgeVars, callAux, resampleVars, twoCallVars, dspVars,
                 otherBridgeVars>>

NextChunk == ChunkCall

SpecChunk == InitChunk /\ [][NextChunk]_vars

\* ------------------------------------------------------- library harness
\* Everything a call of a pure library function leaves alone.
notFn == <<bridgeVars, callAux, resampleVars, twoCallVars, dspVars, otherBridgeVars>>

\* One call is made, with arguments drawn from argSet.
FnInit(argSet) ==
  /\ ProcessInit
  /\ fnArgs \in argSet
  /\ fnResult = << >>
  /\ fnDone = FALSE

\* The call returns result.
FnCall(result) ==
  /\ ~fnDone
  /\ fnResult' = result
  /\ fnDone' = TRUE
  /\ UNCHANGED <<fnArgs, notFn>>

\* ------------------------------------------------------------------- codec
\* Buffers are sequences of bytes; PCM16 samples are read and written little
\* endian, two bytes each.
Bytes == 0..255
Int16Min == -32768
Int16Max == 32767
InInt16(sample) == Int16Min <= sample /\ sample <= Int16Max

\* new Int16Array(buffer, byteOffset, sampleCount)[i], i from 1: the view is
\* taken at an even byteOffset, as every buffer the pipeline builds is
\* (Buffer.alloc, Buffer.concat, Buffer.from, subarray at an even offset).
Int16At(pcmBuffer, i) ==
  LET u == pcmBuffer[2 * i - 1] + 256 * pcmBuffer[2 * i]
  IN IF u > Int16Max THEN u - 65536 ELSE u

\* pcmBuffer.writeInt16LE(sample, ...): the two bytes written.
Int16Bytes(sample) ==
  LET u == (sample + 65536) % 65536 IN <<u % 256, u \div 256>>

RECURSIVE Flatten(_)
Flatten(seqs) == IF seqs = << >> THEN << >> ELSE Head(seqs) \o Flatten(Tail(seqs))

\* x >> n for 0 <= x < 2^15: the shift count is taken modulo 32.
Shr(x, n) ==
  LET count == (n + 32) % 32 IN IF count >= 15 THEN 0 ELSE x \div (2 ^ count)

clamp(val, min, max) ==
  LET low == IF val > min THEN val ELSE min IN IF low < max THEN low ELSE max

\* The for loop of linearToMuLawSample that finds the exponent.
RECURSIVE ExponentLoop(_, _, _)
ExponentLoop(clamped, expMask, exponent) ==
  IF (clamped \div expMask) % 2 = 0 /\ exponent > 0
  THEN ExponentLoop(clamped, expMask \div 2, exponent - 1)
  ELSE exponent

linearToMuLawSample(sample) ==
  LET BIAS == 132
      MAX == 32635
      c == clamp(sample, -MAX, MAX)
      sign == IF c < 0 THEN 128 ELSE 0
      clamped == (IF c < 0 THEN -c ELSE c) + BIAS
      exponent == ExponentLoop(clamped, 16384, 7)
      mantissa == Shr(clamped, IF exponent = 0 THEN 0 ELSE exponent - 3) % 16
  IN 255 - (sign + exponent * 16 + mantissa)

\* The sample decodeMuLaw computes for one byte, before it is written.
MuLawToLinear(byte) ==
  LET mu == 255 - byte
      sign == mu \div 128
      exponent == (mu \div 16) % 8
      mantissa == mu % 16
      sample == (mantissa * 8 + 132) * (2 ^ exponent) - 132
  IN IF sign = 1 THEN -sample ELSE sample

\* What a call gives back: a buffer, or an exception.
Returned(bytes) == [thrown |-> FALSE, bytes |-> bytes]
Thrown == [thrown |-> TRUE, bytes |-> << >>]

\* decodeMuLaw(muLawBuffer); writeInt16LE throws on a sample out of range.
decodeMuLaw(muLawBuffer) ==
  IF Len(muLawBuffer) = 0 THEN Returned(<< >>)
  ELSE IF \E i \in DOMAIN muLawBuffer : ~InInt16(MuLawToLinear(muLawBuffer[i]))
  THEN Thrown
  ELSE Returned(Flatten([i \in DOMAIN muLawBuffer |->
                           Int16Bytes(MuLawToLinear(muLawBuffer[i]))]))

\* Mutant: an odd trailing byte is encoded as a sample of its own.
EncodeKeepsOddByte(pcmBuffer) ==
  LET sampleCount == (Len(pcmBuffer) + 1) \div 2
      padded == pcmBuffer \o <<0>>
  IN Returned([i \in 1..sampleCount |-> linearToMuLawSample(Int16At(padded, i))])

\* encodeMuLaw(pcmBuffer).
encodeMuLaw(pcmBuffer) ==
  IF Len(pcmBuffer) = 0 THEN Returned(<< >>)
  ELSE LET sampleCount == Len(pcmBuffer) \div 2
       IN Returned([i \in 1..sampleCount |->
                      linearToMuLawSample(Int16At(pcmBuffer, i))])

\* Buffers tried.  PCM samples on a grid over the whole 16-bit range and at
\* its ends; PCM byte strings of every length up to the bound, odd lengths
\* included; every companded byte on its own and short strings of them.
MaxPcmBytes == 3
MaxMuLen == 2
PcmSamples == {s * 257 : s \in -127..127} \cup {Int16Min, Int16Max}
LoudSamples == {-20000, -1, 0, 1000, 20000}
PcmOf(samples) == Flatten([i \in DOMAIN samples |-> Int16Bytes(samples[i])])
SampleBuffers ==
  {PcmOf(<<s>>) : s \in PcmSamples}
    \cup {PcmOf(<<s, t>>) : s \in LoudSamples, t \in LoudSamples}
EdgeBytes == {0, 127, 128, 255}
PcmBuffers == UNION {[1..n -> EdgeBytes] : n \in 0..MaxPcmBytes}
MuBuffers ==
  {<<b>> : b \in Bytes} \cup UNION {[1..n -> EdgeBytes] : n \in 0..MaxMuLen}

\* The buffer of runTranscodeSelfTest.
SelfTestMuLaw == <<255, 127, 0, 1, 2, 3, 4, 5>>

CodecArgs ==
  {<<"encode", b>> : b \in PcmBuffers \cup SampleBuffers}
    \cup {<<"decode", b>> : b \in MuBuffers}
    \cup {<<"roundtrip", b>> : b \in SampleBuffers}
    \cup {<<"reencode", b>> : b \in {<<c>> : c \in Bytes} \cup {SelfTestMuLaw}}

InitCodec == FnInit(CodecArgs)

EncodeCall == fnArgs[1] = "encode" /\ FnCall(encodeMuLaw(fnArgs[2]))
DecodeCall == fnArgs[1] = "decode" /\ FnCall(decodeMuLaw(fnArgs[2]))

\* The round trip of the test: decodeMuLaw(encodeMuLaw(buf)).
RoundTripCall ==
  /\ fnArgs[1] = "roundtrip"
  /\ LET mu == encodeMuLaw(fnArgs[2])
     IN FnCall(IF mu.thrown THEN Thrown ELSE decodeMuLaw(mu.bytes))

\* Decoded audio encoded again: encodeMuLaw(decodeMuLaw(buf)).
ReencodeCall ==
  /\ fnArgs[1] = "reencode"
  /\ LET pcm == decodeMuLaw(fnArgs[2])
     IN FnCall(IF pcm.thrown THEN Thrown ELSE encodeMuLaw(pcm.bytes))

NextCodec == EncodeCall \/ DecodeCall \/ RoundTripCall \/ ReencodeCall

SpecCodec == InitCodec /\ [][NextCodec]_vars

\* -------------------------------------------------- in-process resamplers
\* Math.round(num / den) for den > 0: halves go up.
RoundDiv(num, den) == (2 * num + den) \div (2 * den)

\* toInt16View(pcmBuffer).length for a Buffer.
ViewLength(pcmBuffer) == Len(pcmBuffer) \div 2

\* Buffer.from(view.buffer, ...) of an Int16Array holding samples[1..n].
BytesOfSamples(samples) ==
  [k \in 1..(2 * Len(samples)) |->
     Int16Bytes(samples[(k + 1) \div 2])[IF k % 2 = 1 THEN 1 ELSE 2]]

\* Mutant: the output length is cut down instead of rounded.
LinearOutSamplesFloor(inLength, fromRate, toRate) ==
  LET n == (inLength * toRate) \div fromRate IN IF n > 1 THEN n ELSE 1

\* outSamples of resamplePcm16Linear.
LinearOutSamples(inLength, fromRate, toRate) ==
  LET n == RoundDiv(inLength * toRate, fromRate) IN IF n > 1 THEN n ELSE 1

\* inView[idx] || 0, idx from 0.
ViewAt(pcmBuffer, idx) ==
  IF idx < ViewLength(pcmBuffer) THEN Int16At(pcmBuffer, idx + 1) ELSE 0

\* outView[i] of resamplePcm16Linear, i from 0: srcPos = i * fromRate / toRate.
LinearSample(pcmBuffer, fromRate, toRate, i) ==
  LET idx == (i * fromRate) \div toRate
      fracNum == (i * fromRate) % toRate
      s1 == ViewAt(pcmBuffer, idx)
      last == ViewLength(pcmBuffer) - 1
      s2 == ViewAt(pcmBuffer, IF idx + 1 < last THEN idx + 1 ELSE last)
  IN RoundDiv(s1 * toRate + (s2 - s1) * fracNum, toRate)

\* resamplePcm16Linear(pcmBuffer, fromRate, toRate), rates positive.
resamplePcm16Linear(pcmBuffer, fromRate, toRate) ==
  IF Len(pcmBuffer) = 0 THEN << >>
  ELSE IF fromRate = toRate THEN pcmBuffer
  ELSE IF ViewLength(pcmBuffer) = 0 THEN << >>
  ELSE LET outSamples == LinearOutSamples(ViewLength(pcmBuffer), fromRate, toRate)
       IN BytesOfSamples([j \in 1..outSamples |->
                            LinearSample(pcmBuffer, fromRate, toRate, j - 1)])

\* outSamples of resamplePcm16Sinc: Math.floor(inView.length * (toRate /
\* fromRate)) in double arithmetic.  When the exact product is a whole number
\* the rounded one can fall just below it (27 * (13 / 3) is 116.99999999999999);
\* roundedDown tells whether it did.
SincOutSamples(inLength, fromRate, toRate, roundedDown) ==
  LET exact == (inLength * toRate) \div fromRate
      whole == (inLength * toRate) % fromRate = 0
      n == IF whole /\ roundedDown THEN exact - 1 ELSE exact
  IN IF n > 1 THEN n ELSE 1

\* Mutant: equal rates are resampled like any others.
SincWithoutShortcut(pcmBuffer, fromRate, toRate, roundedDown) ==
  IF ViewLength(pcmBuffer) = 0 THEN << >>
  ELSE [k \in 1..(2 * SincOutSamples(ViewLength(pcmBuffer), fromRate, toRate,
                                     roundedDown)) |-> -1]

\* resamplePcm16Sinc(pcmBuffer, fromRate, toRate).  The value of a filtered
\* sample is not modelled: each of its bytes is written -1.
resamplePcm16Sinc(pcmBuffer, fromRate, toRate, roundedDown) ==
  IF ViewLength(pcmBuffer) = 0 THEN << >>
  ELSE IF fromRate = toRate THEN pcmBuffer
  ELSE [k \in 1..(2 * SincOutSamples(ViewLength(pcmBuffer), fromRate, toRate,
                                     roundedDown)) |-> -1]

\* The buffer resamplePcm16Best returns when it starts with an empty cache,
\* the probe ends as po and the ffmpeg run as ro; ffmpeg's output is not
\* modelled (one sample of bytes -1).
BestBuffer(pcmBuffer, fromRate, toRate, po, ro, roundedDown) ==
  LET r == ResamplePcm16Best(IF Len(pcmBuffer) = 0 THEN "empty" ELSE "block",
                             fromRate = toRate, FALSE, FALSE, po, ro)
  IN CASE r.result = "empty" -> << >>
       [] r.result = "copy" -> pcmBuffer
       [] r.result = "sinc" -> resamplePcm16Sinc(pcmBuffer, fromRate, toRate, roundedDown)
       [] OTHER -> <<-1, -1>>

\* Inputs: every sample string up to the length bound over two sample values,
\* the short byte strings (odd lengths included), at every pair of small
\* rates and at the telephony rates; and the buffer of the repository's test,
\* 1600 samples i % 100, from 16 kHz to 8 kHz.
MaxSamples == 3
MaxRate == 4
SampleValues == {-20000, 1000}
ShortPcm ==
  UNION {{BytesOfSamples(s) : s \in [1..n -> SampleValues]} : n \in 0..MaxSamples}
    \cup UNION {[1..n -> {0, 255}] : n \in 0..MaxPcmBytes}
TestPcm16k == BytesOfSamples([i \in 1..1600 |-> (i - 1) % 100])
RatePairs ==
  ((1..MaxRate) \X (1..MaxRate))
    \cup {<<16000, 8000>>, <<8000, 16000>>, <<24000, 8000>>, <<8000, 8000>>}
ResamplerNames == {"linear", "sinc", "best"}
ResampleFnArgs ==
  {<<f, b, r[1], r[2], d>> :
      f \in ResamplerNames, b \in ShortPcm, r \in RatePairs, d \in BOOLEAN}
    \cup {<<"linear", TestPcm16k, 16000, 8000, FALSE>>}

InitResampleFn == FnInit(ResampleFnArgs)

LinearCall ==
  /\ fnArgs[1] = "linear"
  /\ FnCall(resamplePcm16Linear(fnArgs[2], fnArgs[3], fnArgs[4]))

SincCall ==
  /\ fnArgs[1] = "sinc"
  /\ FnCall(resamplePcm16Sinc(fnArgs[2], fnArgs[3], fnArgs[4], fnArgs[5]))

\* resamplePcm16Best with ffmpeg present and working, or absent.
BestCall ==
  /\ fnArgs[1] = "best"
  /\ \E o \in {"ok", "absent"} :
       FnCall(BestBuffer(fnArgs[2], fnArgs[3], fnArgs[4], o, o, fnArgs[5]))

NextResampleFn == LinearCall \/ SincCall \/ BestCall

SpecResampleFn == InitResampleFn /\ [][NextResampleFn]_vars

\* ------------------------------------------------------------ conditioner
\* Levels and gains are kept in decibels, in ticks of 1/48000 dB, so that the
\* cap of 1 dB per 100 ms is a whole number of ticks per sample at 8, 16, 24
\* and 48 kHz.
DbTick == 48 * 1000

\* A bound on a block's samples that says nothing (a filter's output is not
\* bounded by the model), and the limiter's ceiling of -1 dBFS.
NoBound == 1000 * DbTick
CeilingDb == -DbTick

\* A processForTelephony call in progress: the number of samples of the
\* block, an upper bound on their magnitude (dBFS), the Conditioner state,
\* and the stages that have run.
DspRun(samples, peak, state) ==
  [samples |-> samples, peak |-> peak, state |-> state, stages |-> << >>]

applyDCRemoval(r) ==
  [r EXCEPT !.state.dcMean = @ + r.samples,
            !.peak = NoBound,
            !.stages = Append(@, "dc")]

onePoleHighpass(r) ==
  [r EXCEPT !.state.hpPrevInput = @ + r.samples,
            !.state.hpPrevOutput = @ + r.samples,
            !.peak = NoBound,
            !.stages = Append(@, "highpass")]

onePoleLowpass(r) ==
  [r EXCEPT !.state.lpPrevOutput = @ + r.samples,
            !.peak = NoBound,
            !.stages = Append(@, "lowpass")]

\* The compressor's gain is at most 1: it never raises a sample.
applyCompressor(r) ==
  [r EXCEPT !.state.compressorEnv = @ + r.samples,
            !.stages = Append(@, "compressor")]

applyLimiter(r) ==
  [r EXCEPT !.peak = IF @ > CeilingDb THEN CeilingDb ELSE @,
            !.stages = Append(@, "limiter")]

\* Mutant: the newest bucket is dropped instead of the oldest.
RECURSIVE EvictNewest(_, _)
EvictNewest(state, windowSamples) ==
  IF state.agcSampleTotal > windowSamples /\ Len(state.agcEnergyQueue) > 0
  THEN LET q == state.agcEnergyQueue
           newest == q[Len(q)]
       IN EvictNewest([state EXCEPT
                         !.agcEnergyQueue = SubSeq(q, 1, Len(q) - 1),
                         !.agcEnergyTotal = @ - newest.energy,
                         !.agcSampleTotal = @ - newest.samples],
                      windowSamples)
  ELSE state

\* The while loop of applyAgc that evicts buckets.
RECURSIVE EvictLoop(_, _)
EvictLoop(state, windowSamples) ==
  IF state.agcSampleTotal > windowSamples /\ Len(state.agcEnergyQueue) > 0
  THEN LET oldest == Head(state.agcEnergyQueue)
       IN EvictLoop([state EXCEPT
                       !.agcEnergyQueue = Tail(@),
                       !.agcEnergyTotal = @ - oldest.energy,
                       !.agcSampleTotal = @ - oldest.samples],
                    windowSamples)
  ELSE state

\* 1 dB per 100 ms, in ticks per sample (a whole number at the rates tried).
TicksPerSample(sampleRate) == (10 * DbTick) \div sampleRate

\* maxDeltaDb of applyAgc: Math.max(0.001, (chunkMs / 100) * 1), in ticks.
MaxDeltaDb(chunkSamples, sampleRate) ==
  LET floor == DbTick \div 1000
      cap == chunkSamples * TicksPerSample(sampleRate)
  IN IF cap > floor THEN cap ELSE floor

\* newDb of applyAgc.
NewDb(currentDb, desiredDb, maxDeltaDb) ==
  IF desiredDb > currentDb + maxDeltaDb THEN currentDb + maxDeltaDb
  ELSE IF desiredDb < currentDb - maxDeltaDb THEN currentDb - maxDeltaDb
  ELSE desiredDb

\* applyAgc(floatArray, sampleRate, state, -19).  sumSquares is the energy of
\* the block; desiredDb is what 20 * log10(targetLinear / windowRms) comes to,
\* which the model takes as given.
applyAgc(r, sampleRate, sumSquares, desiredDb) ==
  IF r.samples = 0 THEN r
  ELSE LET pushed == [r.state EXCEPT
                        !.agcEnergyQueue =
                           Append(@, [energy |-> sumSquares, samples |-> r.samples]),
                        !.agcEnergyTotal = @ + sumSquares,
                        !.agcSampleTotal = @ + r.samples]
           kept == EvictLoop(pushed, sampleRate)
           newDb == NewDb(kept.agcGain, desiredDb, MaxDeltaDb(r.samples, sampleRate))
       IN [r EXCEPT !.state = [kept EXCEPT !.agcGain = newDb],
                    !.peak = @ + newDb,
                    !.stages = Append(@, "agc")]

\* Mutant: the automatic gain control runs after the last limiter.
ProcessAgcLast(samples, sampleRate, state, sumSquares, desiredDb) ==
  IF samples = 0 THEN DspRun(samples, 0, state)
  ELSE applyAgc(
         applyLimiter(applyLimiter(applyCompressor(onePoleLowpass(
           onePoleHighpass(applyDCRemoval(DspRun(samples, 0, state))))))),
         sampleRate, sumSquares, desiredDb)

\* processForTelephony(floatArray, sampleRate, state): the samples of
\* pcm16ToFloat32 are within 0 dBFS.
processForTelephony(samples, sampleRate, state, sumSquares, desiredDb) ==
  IF samples = 0 THEN DspRun(samples, 0, state)
  ELSE applyLimiter(
         applyAgc(
           applyLimiter(applyCompressor(onePoleLowpass(
             onePoleHighpass(applyDCRemoval(DspRun(samples, 0, state)))))),
           sampleRate, sumSquares, desiredDb))

\* Blocks tried: empty, one sample, 200 ms at 24 kHz, and more than a second;
\* two sample rates; a silent and a loud block; a desired gain as low as a
\* window at the limiter's ceiling asks for (-19 dBFS target, -1 dBFS
\* ceiling), at unity, and far above it.
MaxDspCalls == 3
BlockSamples == {0, 1, 4800, 30000}
SampleRates == {8000, 24000}
BlockEnergies == {0, 1}
DesiredDbs == {-18 * DbTick, 0, 20 * DbTick}

\* One block goes through the Conditioner.
ProcessBlock(samples, sampleRate, sumSquares, desiredDb) ==
  /\ dspTrace.calls < MaxDspCalls
  /\ LET r == processForTelephony(samples, sampleRate, dspState, sumSquares, desiredDb)
     IN /\ dspState' = r.state
        /\ dspTrace' = [calls |-> dspTrace.calls + 1, samples |-> samples,
                        sampleRate |-> sampleRate, stages |-> r.stages,
                        peak |-> r.peak, before |-> dspState]
  /\ UNCHANGED <<bridgeVars, callAux, resampleVars, twoCallVars, fnVars, otherBridgeVars>>

NextDsp ==
  \E n \in BlockSamples, rate \in SampleRates, e \in BlockEnergies, d \in DesiredDbs :
    ProcessBlock(n, rate, e, d)

SpecDsp == Init /\ [][NextDsp]_vars

\* Tool calls while an SMS send is pending: the tool-call events, with the
\* accumulator each suspended capture_message handler parsed (its call id and
\* text, as handleFunctionCallDone read them before its await) remembered
\* until that handler resumes.
Dispatch(id, buf) == [id |-> id, buf |-> buf]

PendingEngineMessage ==
  \E m \in ToolMsgs :
    /\ HandleOpenAiMessage(m)
    /\ dispatched' =
         IF pendingSms' > pendingSms
         THEN Append(dispatched, Dispatch(functionCallId', functionCallBuffer'))
         ELSE dispatched
    /\ UNCHANGED <<streamed, speechPending, scriptPos, scriptOut, nSubmit, libVars>>

\* The suspended handlers resume in the order they were suspended.
PendingSettled ==
  \E d \in BOOLEAN :
    /\ SmsSettled(d)
    /\ dispatched' = Tail(dispatched)
    /\ UNCHANGED <<streamed, speechPending, scriptPos, scriptOut, nSubmit, libVars>>

NextPending ==
  \/ (\E k \in BOOLEAN : Connection(k)) /\ UNCHANGED auxVars
  \/ OpenAiOpen /\ UNCHANGED auxVars
  \/ TwilioClose /\ UNCHANGED auxVars
  \/ OpenAiClose /\ UNCHANGED auxVars
  \/ PendingEngineMessage
  \/ PendingSettled

SpecPending == Init /\ [][NextPending]_vars

\* ------------------------------------------------- order-taking bridge
\* One call of the order-taking bridge: session initialization and the order
\* write at call end.  An await of restaurantReady continues in the same turn
\* when the promise is already resolved and suspends the function otherwise.
MaxWaiters == 3
OrderPayloads == {1, 2}

Waiter(kind, payload) == [kind |-> kind, payload |-> payload]
notOrder ==
  <<bridgeVars, callAux, resampleVars, twoCallVars, fnVars, dspVars, geminiCall,
    audioOut>>

\* maybeInitSession() after `await restaurantReady`: session.update and the
\* greeting response.create are sent, then sessionInitialized is set.
InitNow(o) ==
  IF o.openaiState # "OPEN" THEN o
  ELSE [o EXCEPT !.sessionInitialized = TRUE, !.nInit = Sat(@)]

\* maybeInitSession().
maybeInitSession(o) ==
  IF o.sessionInitialized \/ ~o.openaiReady \/ ~o.twilioStartReceived THEN o
  ELSE IF o.restaurantReady = "pending"
  THEN [o EXCEPT !.waiters = Append(@, Waiter("init", NoPayload))]
  ELSE InitNow(o)

\* handleFunctionCallDone() for a submit_order call with valid arguments,
\* after `await restaurantReady`.
CaptureOrder(o, payload) ==
  [o EXCEPT !.lastSubmitOrderPayload = payload, !.submitOrderCount = Sat(@)]

\* The end of socket.on('close'): the engine socket is closed if it is open.
CloseTail(o) ==
  [o EXCEPT !.closePc = "done",
            !.openaiState = IF @ = "OPEN" THEN "CLOSING" ELSE @]

\* socket.on('close') after `await restaurantReady`, up to the await of
\* submitOrderToFirebase.
CloseAfterReady(o) ==
  IF o.currentRestaurant
  THEN [o EXCEPT !.closePc = "writing",
                 !.written = Append(@, o.lastSubmitOrderPayload)]
  ELSE CloseTail(o)

\* A function suspended on restaurantReady resumes.
ResumeWaiter(o, w) ==
  CASE w.kind = "init" -> InitNow(o)
    [] w.kind = "done" -> CaptureOrder(o, w.payload)
    [] w.kind = "close" -> CloseAfterReady(o)

RECURSIVE ResumeAll(_, _)
ResumeAll(o, ws) ==
  IF ws = << >> THEN o ELSE ResumeAll(ResumeWaiter(o, Head(ws)), Tail(ws))

\* wss.on('connection'): the restaurant lookup starts when the request URL
\* names a restaurant; without one restaurantReady resolves to null at once.
OrderConnection(hasId) ==
  /\ orderCall.bridge = "new"
  /\ orderCall' = [orderCall EXCEPT !.bridge = "wired",
                                    !.openaiState = "CONNECTING",
                                    !.restaurantReady =
                                       IF hasId THEN "pending" ELSE "resolved"]
  /\ UNCHANGED notOrder

\* The restaurant lookup settles: loadRestaurantById sets currentRestaurant
\* when the document exists, and the functions awaiting restaurantReady
\* resume in the order they began to wait.
OrderLookupSettles(found) ==
  /\ orderCall.restaurantReady = "pending"
  /\ orderCall' =
       ResumeAll([orderCall EXCEPT !.restaurantReady = "resolved",
                                   !.currentRestaurant = found,
                                   !.waiters = << >>],
                 orderCall.waiters)
  /\ UNCHANGED notOrder

\* openaiSocket.on('open').
OrderOpenAiOpen ==
  /\ orderCall.openaiState = "CONNECTING"
  /\ Len(orderCall.waiters) < MaxWaiters
  /\ orderCall' =
       maybeInitSession([orderCall EXCEPT !.openaiState = "OPEN",
                                          !.openaiReady = TRUE,
                                          !.timer = "armed"])
  /\ UNCHANGED notOrder

\* The setTimeout callback of openaiSocket.on('open').
OrderStartTimeout ==
  /\ orderCall.timer = "armed"
  /\ Len(orderCall.waiters) < MaxWaiters
  /\ orderCall' =
       IF orderCall.twilioStartReceived
       THEN [orderCall EXCEPT !.timer = "fired"]
       ELSE maybeInitSession([orderCall EXCEPT !.timer = "fired",
                                               !.twilioStartReceived = TRUE])
  /\ UNCHANGED notOrder

\* handleTwilioMessage, case 'start'.  hasId: customParameters names a
\* restaurant; a lookup is started when none is loaded (one lookup at a time
\* is modelled).
OrderStart(hasId) ==
  /\ orderCall.bridge = "wired"
  /\ orderCall.socketState = "OPEN"
  /\ Len(orderCall.waiters) < MaxWaiters
  /\ hasId => orderCall.restaurantReady = "resolved"
  /\ orderCall' =
       maybeInitSession(
         [orderCall EXCEPT !.twilioStartReceived = TRUE,
                           !.restaurantReady =
                              IF hasId /\ ~orderCall.currentRestaurant
                              THEN "pending" ELSE @])
  /\ UNCHANGED notOrder

\* handleOpenAiMessage, case 'response.function_call_arguments.done', for a
\* submit_order call that carries its complete, valid arguments.
OrderSubmitDone(payload) ==
  /\ orderCall.openaiState \in {"OPEN", "CLOSING"}
  /\ Len(orderCall.waiters) < MaxWaiters
  /\ LET o == [orderCall EXCEPT !.completed =
                                   IF orderCall.socketState = "OPEN"
                                   THEN payload ELSE @]
     IN orderCall' =
          IF o.restaurantReady = "pending"
          THEN [o EXCEPT !.waiters = Append(@, Waiter("done", payload))]
          ELSE CaptureOrder(o, payload)
  /\ UNCHANGED notOrder

\* socket.on('close'), up to its first await.
OrderTwilioClose ==
  /\ orderCall.bridge = "wired"
  /\ orderCall.socketState = "OPEN"
  /\ LET o == [orderCall EXCEPT !.socketState = "CLOSED"]
     IN orderCall' =
          IF o.lastSubmitOrderPayload # NoPayload /\ ~o.orderSubmitted
          THEN IF o.restaurantReady = "pending"
               THEN [o EXCEPT !.closePc = "awaitReady",
                              !.waiters = Append(@, Waiter("close", NoPayload))]
               ELSE CloseAfterReady(o)
          ELSE IF o.lastSubmitOrderPayload # NoPayload THEN CloseTail(o)
          ELSE [o EXCEPT !.closePc = "logging"]
  /\ UNCHANGED notOrder

\* submitOrderToFirebase settles: orderSubmitted is set when it resolved.
OrderWriteSettles(ok) ==
  /\ orderCall.closePc = "writing"
  /\ orderCall' = CloseTail([orderCall EXCEPT !.orderSubmitted = ok])
  /\ UNCHANGED notOrder

\* db.collection('call_logs').add settles, either way.
OrderLogSettles ==
  /\ orderCall.closePc = "logging"
  /\ orderCall' = CloseTail(orderCall)
  /\ UNCHANGED notOrder

\* The engine connection ends.
OrderOpenAiClose ==
  /\ orderCall.openaiState \in {"CONNECTING", "OPEN", "CLOSING"}
  /\ orderCall' = [orderCall EXCEPT !.openaiState = "CLOSED"]
  /\ UNCHANGED notOrder

NextOrder ==
  \/ \E hasId \in BOOLEAN : OrderConnection(hasId)
  \/ \E found \in BOOLEAN : OrderLookupSettles(found)
  \/ OrderOpenAiOpen
  \/ OrderStartTimeout
  \/ \E hasId \in BOOLEAN : OrderStart(hasId)
  \/ \E payload \in OrderPayloads : OrderSubmitDone(payload)
  \/ OrderTwilioClose
  \/ \E ok \in BOOLEAN : OrderWriteSettles(ok)
  \/ OrderLogSettles
  \/ OrderOpenAiClose

SpecOrder == Init /\ [][NextOrder]_vars

\* --------------------------------------------------------- Gemini bridge
\* One call of the Gemini bridge with the session connectGeminiLive
\* establishes for it.  Callbacks registered on a settled promise and awaits
\* of a resolved promise run before the next event is delivered, so they are
\* part of the step that makes them runnable.
MaxMedia == 2
notGemini ==
  <<bridgeVars, callAux, resampleVars, twoCallVars, fnVars, dspVars, orderCall,
    audioOut>>

Then(kind, payload) == [kind |-> kind, payload |-> payload]

\* GeminiLiveClient.sendAudioChunk(payload) after `await this.ready`.
SendAfterReady(g, payload) ==
  IF g.closedAtMs \/ ~g.sessionAcked THEN g
  ELSE [g EXCEPT !.forwarded = Append(@, payload)]

RECURSIVE ResumeReady(_, _)
ResumeReady(g, ws) ==
  IF ws = << >> THEN g ELSE ResumeReady(SendAfterReady(g, Head(ws)), Tail(ws))

\* GeminiLiveClient.sendAudioChunk(payload).
sendAudioChunk(g, payload) ==
  LET h == [g EXCEPT !.handed = Append(@, payload)]
  IN IF h.readyResolved THEN SendAfterReady(h, payload)
     ELSE [h EXCEPT !.readyWaiters = Append(@, payload)]

\* GeminiLiveClient.markReady(): resolves ready (once) and sends the greeting
\* prompt; the suspended sendAudioChunk calls resume in order.
markReady(g) ==
  ResumeReady([g EXCEPT !.readyResolved = TRUE, !.nReady = Sat(@),
                        !.nGreeting = Sat(@), !.readyWaiters = << >>],
              g.readyWaiters)

\* GeminiLiveClient.close().
closeClient(g) == [g EXCEPT !.sessionClosed = TRUE]

\* A callback registered on geminiClientPromise runs with the client the
\* promise resolved to (null when initializeGemini failed).
RunThen(g, t) ==
  IF ~g.geminiClient THEN g
  ELSE IF t.kind = "media" THEN sendAudioChunk(g, t.payload)
  ELSE closeClient(g)

RECURSIVE RunThens(_, _)
RunThens(g, ts) ==
  IF ts = << >> THEN g ELSE RunThens(RunThen(g, Head(ts)), Tail(ts))

\* geminiClientPromise = initializeGemini(), up to `await restaurantReady`,
\* unless a promise exists already.
EnsureInitializing(g) ==
  IF g.geminiClientPromise # "none" THEN g
  ELSE [g EXCEPT !.geminiClientPromise = "pending", !.connectPc = "lookup",
                 !.nInitialize = Sat(@)]

\* Mutant: the close handler closes only a client that exists already.
CloseSectionClientOnly(g) ==
  LET h == [g EXCEPT !.closePc = "done"]
  IN IF h.geminiClient THEN closeClient(h) ELSE h

\* The end of socket.on('close'): the client is closed, or its closing is
\* registered on the pending promise.
CloseSection(g) ==
  LET h == [g EXCEPT !.closePc = "done"]
  IN IF h.geminiClient THEN closeClient(h)
     ELSE IF h.geminiClientPromise = "pending"
     THEN [h EXCEPT !.thens = Append(@, Then("close", Absent))]
     ELSE h

\* socket.on('message'), event 'start'.
GemStart(sid) ==
  /\ geminiCall.socketState = "OPEN"
  /\ geminiCall' =
       EnsureInitializing([geminiCall EXCEPT !.streamSid =
                                                IF sid # Absent THEN sid ELSE @,
                                             !.lastEvent = "start",
                                             !.sent = << >>])
  /\ UNCHANGED notGemini

\* socket.on('message'), event 'media' with a payload: the frame is handed to
\* the client through geminiClientPromise.then.
GemMedia(payload) ==
  /\ geminiCall.socketState = "OPEN"
  /\ Len(geminiCall.received) < MaxMedia
  /\ LET g == EnsureInitializing([geminiCall EXCEPT !.lastEvent = "media",
                                                    !.sent = << >>,
                                                    !.received = Append(@, payload)])
     IN geminiCall' =
          IF g.geminiClientPromise = "pending"
          THEN [g EXCEPT !.thens = Append(@, Then("media", payload))]
          ELSE RunThen(g, Then("media", payload))
  /\ UNCHANGED notGemini

\* initializeGemini: restaurantReady settles and connectGeminiLive is called.
GemLookupSettles ==
  /\ geminiCall.connectPc = "lookup"
  /\ geminiCall' = [geminiCall EXCEPT !.connectPc = "connecting",
                                      !.lastEvent = "lookup", !.sent = << >>]
  /\ UNCHANGED notGemini

\* connectGeminiLive, callbacks.onopen.
GemOnOpen ==
  /\ geminiCall.connectPc \in {"connecting", "done"}
  /\ ~geminiCall.openSeen
  /\ ~geminiCall.engineClosed
  /\ LET g == [geminiCall EXCEPT !.openSeen = TRUE, !.lastEvent = "open",
                                 !.sent = << >>]
     IN geminiCall' = IF g.clientRef THEN markReady(g) ELSE g
  /\ UNCHANGED notGemini

\* Mutant: the new client is marked ready whether or not the socket has
\* opened.
MarkIfOpenSeenAlways(g) == markReady(g)

\* connectGeminiLive after the client is made: `if (openSeen)` markReady.
MarkIfOpenSeen(g) == IF g.openSeen THEN markReady(g) ELSE g

\* ai.live.connect settles.  Resolved: connectGeminiLive makes the client and
\* marks it ready if the socket has opened; initializeGemini assigns
\* geminiClient, wires the events and resolves geminiClientPromise.  Rejected:
\* initializeGemini closes the telephony socket and resolves to null.
GemConnectSettles(ok) ==
  /\ geminiCall.connectPc = "connecting"
  /\ LET g == [geminiCall EXCEPT !.lastEvent = "connect", !.sent = << >>,
                                 !.thens = << >>,
                                 !.geminiClientPromise = "resolved"]
         made == [g EXCEPT !.connectPc = "done", !.clientRef = TRUE,
                           !.geminiClient = TRUE]
     IN geminiCall' =
          IF ok
          THEN RunThens(MarkIfOpenSeen(made), geminiCall.thens)
          ELSE [g EXCEPT !.connectPc = "failed",
                         !.socketState = IF @ = "OPEN" THEN "CLOSING" ELSE @]
  /\ UNCHANGED notGemini

\* handleBargeIn(), run by the client's 'user.start' event.
handleBargeIn(g) ==
  [g EXCEPT !.userSpeaking = TRUE, !.bargedIn = TRUE,
            !.sent = IF g.streamSid # Absent /\ g.socketState = "OPEN"
                     THEN <<TwilioClear(g.streamSid)>> ELSE << >>]

\* Mutant: an audio delta ends the barge-in.
AudioDeltaResumes(g, chunk) ==
  IF chunk = Absent \/ g.streamSid = Absent THEN g
  ELSE [g EXCEPT !.userSpeaking = FALSE,
                 !.sent = IF g.socketState = "OPEN"
                          THEN <<TwilioMedia(g.streamSid, chunk)>> ELSE << >>]

\* The listener of the client's 'audio.delta' event.
AudioDelta8k(g, chunk) ==
  IF chunk = Absent \/ g.streamSid = Absent THEN g
  ELSE IF g.userSpeaking THEN g
  ELSE [g EXCEPT !.userSpeaking = FALSE,
                 !.sent = IF g.socketState = "OPEN"
                          THEN <<TwilioMedia(g.streamSid, chunk)>> ELSE << >>]

GemEventKinds == {"user.start", "audio.delta", "tool.call", "other"}

\* callbacks.onmessage with the client made: handleMessage marks the session
\* acknowledged and emits the event the message stands for.
GemMessage(kind, chunk) ==
  /\ geminiCall.clientRef
  /\ geminiCall.openSeen
  /\ ~geminiCall.engineClosed
  /\ kind = "audio.delta" <=> chunk # Absent
  /\ LET g == [geminiCall EXCEPT !.sessionAcked = TRUE, !.lastEvent = kind,
                                 !.sent = << >>]
     IN geminiCall' =
          CASE kind = "user.start" -> handleBargeIn(g)
            [] kind = "audio.delta" -> AudioDelta8k(g, chunk)
            [] kind = "tool.call" -> [g EXCEPT !.lastSubmitOrderPayload = TRUE]
            [] OTHER -> g
  /\ UNCHANGED notGemini

\* callbacks.onclose: the engine socket has closed.
GemOnClose ==
  /\ geminiCall.openSeen
  /\ ~geminiCall.engineClosed
  /\ geminiCall' = [geminiCall EXCEPT !.engineClosed = TRUE,
                                      !.closedAtMs = geminiCall.clientRef,
                                      !.lastEvent = "engine.close",
                                      !.sent = << >>]
  /\ UNCHANGED notGemini

\* socket.on('close'): with an order captured the handler first awaits the
\* order write.
GemTwilioClose ==
  /\ geminiCall.socketState \in {"OPEN", "CLOSING"}
  /\ LET g == [geminiCall EXCEPT !.socketState = "CLOSED",
                                 !.lastEvent = "twilio.close", !.sent = << >>]
     IN geminiCall' =
          IF g.lastSubmitOrderPayload THEN [g EXCEPT !.closePc = "writing"]
          ELSE CloseSection(g)
  /\ UNCHANGED notGemini

\* The order write of the close handler settles.
GemWriteSettles ==
  /\ geminiCall.closePc = "writing"
  /\ geminiCall' = CloseSection([geminiCall EXCEPT !.lastEvent = "write",
                                                   !.sent = << >>])
  /\ UNCHANGED notGemini

NextGemini ==
  \/ \E sid \in {Absent} \cup StreamSids : GemStart(sid)
  \/ \E payload \in Payloads : GemMedia(payload)
  \/ GemLookupSettles
  \/ GemOnOpen
  \/ \E ok \in BOOLEAN : GemConnectSettles(ok)
  \/ \E kind \in GemEventKinds, chunk \in {Absent} \cup Payloads : GemMessage(kind, chunk)
  \/ GemOnClose
  \/ GemTwilioClose
  \/ GemWriteSettles

SpecGemini == Init /\ [][NextGemini]_vars

\* The store settles the order write the close handler awaits.
SpecGeminiLive == SpecGemini /\ WF_vars(GemWriteSettles)

\* ------------------------------------------------- Gemini outbound audio
\* GeminiLiveClient.handleGeminiAudioBytes with GEMINI_FORWARD_AUDIO_TO_TWILIO
\* left at its default: engine PCM is gathered in audioInBuffer, resampled to
\* 8 kHz in chunks of at most ten frames, gathered in audio8kBuffer and
\* emitted in frames of 160 samples.
TWILIO_SAMPLE_RATE == 8000
DEFAULT_OUTPUT_SAMPLE_RATE == 24000
MaxChunkFrames == 10

MaxAudioCalls == 2

Smaller(a, b) == IF a < b THEN a ELSE b

\* Math.max(2, Math.ceil((getTwilioFrameBytes() * rate) / TWILIO_SAMPLE_RATE) * 2)
neededInputBytes(rate) ==
  LET c == (TWILIO_FRAME_BYTES * rate + TWILIO_SAMPLE_RATE - 1) \div TWILIO_SAMPLE_RATE
  IN IF 2 * c > 2 THEN 2 * c ELSE 2

pcmFrameBytes == TWILIO_FRAME_BYTES * 2

\* pcm16ToMulaw(framePcm): one code per sample, here the two bytes it is made of.
FrameOf(framePcm) ==
  [i \in 1..(Len(framePcm) \div 2) |-> <<framePcm[2 * i - 1], framePcm[2 * i]>>]

\* Mutant: the frame is taken off audio8kBuffer and not emitted.
TakeFrameSilently(a) ==
  [a EXCEPT !.audio8kBuffer = SubSeq(@, pcmFrameBytes + 1, Len(@))]

\* One turn of the inner loop: the first frame leaves audio8kBuffer and is
\* emitted as audio.delta.
TakeFrame(a) ==
  [a EXCEPT !.audio8kBuffer = SubSeq(@, pcmFrameBytes + 1, Len(@)),
            !.frames = Append(@, FrameOf(SubSeq(a.audio8kBuffer, 1, pcmFrameBytes)))]

RECURSIVE FrameLoop(_)
FrameLoop(a) ==
  IF Len(a.audio8kBuffer) >= pcmFrameBytes THEN FrameLoop(TakeFrame(a)) ELSE a

\* The length of resamplePcm16Best(processedPcm, rate, 8000) for a chunk of
\* whole samples: a copy at equal rates, ffmpeg's output (ffSamples samples,
\* whatever ffmpeg wrote) when ffmpeg runs, the windowed-sinc output otherwise.
Pcm8kLength(chunk, rate, o, ffSamples, roundedDown) ==
  IF o = "ok" /\ rate # TWILIO_SAMPLE_RATE
  THEN 2 * ffSamples
  ELSE Len(BestBuffer(chunk, rate, TWILIO_SAMPLE_RATE, o, o, roundedDown))

\* The outer loop: while audioInBuffer holds a frame's worth of input, at most
\* ten frames' worth of whole samples are cut off, resampled and framed.
RECURSIVE InputLoop(_, _, _, _, _)
InputLoop(a, rate, o, ffSamples, roundedDown) ==
  LET n == Len(a.audioInBuffer)
      processLen == Smaller(n - (n % 2), neededInputBytes(rate) * MaxChunkFrames)
      chunk == SubSeq(a.audioInBuffer, 1, processLen)
      k == Pcm8kLength(chunk, rate, o, ffSamples, roundedDown)
      pcm8k == [i \in 1..k |-> a.produced + i]
      b == [a EXCEPT !.audioInBuffer = SubSeq(@, processLen + 1, n),
                     !.produced = @ + k,
                     !.nChunks = @ + 1,
                     !.audio8kBuffer = IF k = 0 THEN @ ELSE @ \o pcm8k]
  IN IF n < neededInputBytes(rate) THEN a
     ELSE InputLoop(IF k = 0 THEN b ELSE FrameLoop(b), rate, o, ffSamples, roundedDown)

\* handleGeminiAudioBytes(pcmBuffer, sourceRate) for a buffer of `bytes` bytes.
handleGeminiAudioBytes(bytes, sourceRate, o, ffSamples, roundedDown) ==
  LET rate == IF sourceRate > 0 THEN sourceRate ELSE DEFAULT_OUTPUT_SAMPLE_RATE
      a == [audioOut EXCEPT !.nCalls = @ + 1, !.nChunks = 0]
  IN /\ audioOut.nCalls < MaxAudioCalls
     /\ audioOut' =
          IF bytes = 0 THEN a
          ELSE InputLoop([a EXCEPT !.needed = neededInputBytes(rate),
                                   !.audioInBuffer = @ \o [i \in 1..bytes |-> 0]],
                         rate, o, ffSamples, roundedDown)
     /\ UNCHANGED <<bridgeVars, callAux, resampleVars, twoCallVars, fnVars,
                    dspVars, orderCall, geminiCall>>

\* Engine audio: empty, odd, short of a frame, a frame and a bit, more than
\* ten frames; at the telephony rate, twice it, and with no rate given.
AudioByteLengths == {0, 1, 321, 961, 3520}
AudioSourceRates == {0, TWILIO_SAMPLE_RATE, 2 * TWILIO_SAMPLE_RATE}
FfmpegSamples == {1, TWILIO_FRAME_SAMPLES}

AudioBytesCopied ==
  \E bytes \in AudioByteLengths :
    handleGeminiAudioBytes(bytes, TWILIO_SAMPLE_RATE, "absent", 1, FALSE)

AudioBytesByFfmpeg ==
  \E bytes \in AudioByteLengths, r \in AudioSourceRates \ {TWILIO_SAMPLE_RATE},
     ff \in FfmpegSamples :
    handleGeminiAudioBytes(bytes, r, "ok", ff, FALSE)

AudioBytesBySinc ==
  \E bytes \in AudioByteLengths, r \in AudioSourceRates \ {TWILIO_SAMPLE_RATE},
     rd \in BOOLEAN :
    handleGeminiAudioBytes(bytes, r, "absent", 1, rd)

NextAudioOut == AudioBytesCopied \/ AudioBytesByFfmpeg \/ AudioBytesBySinc

SpecAudioOut == Init /\ [][NextAudioOut]_vars

\* ------------------------------------------------------------------ claims
\* One media message, carrying the payload.
IsMediaOf(msgs, payload) ==
  Len(msgs) = 1 /\ msgs[1].kind = "media" /\ msgs[1].b = payload

\* One clear, then one response.cancel tagged rid, and nothing else.
IsClearThenCancel(msgs, rid) ==
  /\ Len(msgs) = 2
  /\ msgs[1].kind = "clear"
  /\ msgs[2] = ResponseCancel(rid)

\* C1 (as claimed): for the script [response.created(1), audio.delta,
\* speech.started, response.created(2), audio.delta] the bridge emits exactly
\* one clear and one response.cancel tagged 1 on speech.started, drops the
\* first audio.delta and forwards the second.
C1_FirstDeltaDropped ==
  scriptPos = Len(Script) =>
    /\ scriptOut[1] = << >>
    /\ scriptOut[2] = << >>
    /\ IsClearThenCancel(scriptOut[3], 1)
    /\ scriptOut[4] = << >>
    /\ IsMediaOf(scriptOut[5], 2)

\* C1 (amended): for that script the bridge forwards both audio deltas (the
\* first is handled while response 1 is active and before speech.started),
\* and on speech.started emits exactly one clear followed by exactly one
\* response.cancel tagged 1; it sends nothing on the two response.created.
C1_BargeInOrdering ==
  scriptPos = Len(Script) =>
    /\ scriptOut[1] = << >>
    /\ IsMediaOf(scriptOut[2], 1)
    /\ IsClearThenCancel(scriptOut[3], 1)
    /\ scriptOut[4] = << >>
    /\ IsMediaOf(scriptOut[5], 2)

C1_Witness == scriptPos = Len(Script) /\ IsMediaOf(scriptOut[5], 2)

IsAudioDelta(ev) == ev.type = "response.output_audio.delta"
IsSpeechStarted(ev) == ev.type = "input_audio_buffer.speech_started"

\* C2: an engine audio delta is forwarded to the telephony leg only if, when
\* it is handled, userSpeaking is false and a response is marked active; in
\* every other state the delta is dropped and nothing is sent.  Media is sent
\* by no other handler.
C2_ForwardOnlyWhenActive ==
  [][/\ HasKind(sent', "media") => IsAudioDelta(lastEvent')
     /\ IsAudioDelta(lastEvent') /\ ~(~userSpeaking /\ activeResponse) => sent' = << >>
    ]_vars

C2_Witness == IsAudioDelta(lastEvent) /\ HasKind(sent, "media")

\* C3: after a speech-started event no audio delta is forwarded until a
\* response.created event has been handled: until then userSpeaking stays set
\* (nothing else clears it, a locally forced response included) and no media
\* message is sent.
C3_NoForwardUntilCreated ==
  speechPending => userSpeaking /\ ~HasKind(sent, "media")

\* A delta dropped after barge-in although a forced response marked the
\* response active again.
C3_Witness ==
  /\ speechPending
  /\ activeResponse
  /\ IsAudioDelta(lastEvent)
  /\ lastEvent.arg # Absent
  /\ streamSid # Absent
  /\ socketState = "OPEN"

\* C4 (as claimed): every response.cancel the bridge sends is tagged with the
\* id of the response that is active at the engine: the newest one created,
\* and not one an end event has already named.
C4_CancelTagsActiveResponse ==
  \A i \in 1..Len(sent) :
    sent[i].kind = "response.cancel" =>
      sent[i].a = createdMax /\ sent[i].a \notin ended

\* The clear, if any, precedes every response.cancel of the same event.
ClearBeforeCancel(msgs) ==
  \A i, j \in 1..Len(msgs) :
    msgs[i].kind = "clear" /\ msgs[j].kind = "response.cancel" => i < j

\* C5 (as claimed): on every speech-started event the bridge sets
\* userSpeaking and sends exactly one clear, before any response.cancel.
C5_AlwaysOneClear ==
  IsSpeechStarted(lastEvent) =>
    /\ userSpeaking
    /\ CountKind(sent, "clear") = 1
    /\ ClearBeforeCancel(sent)

\* C5 (amended): on every speech-started event the bridge sets userSpeaking;
\* it sends exactly one clear when a stream id is known and the telephony
\* socket is open, and none otherwise; the clear precedes any response.cancel
\* of the same event.
C5_OneClearWhenStreaming ==
  IsSpeechStarted(lastEvent) =>
    /\ userSpeaking
    /\ CountKind(sent, "clear") =
         (IF streamSid # Absent /\ socketState = "OPEN" THEN 1 ELSE 0)
    /\ CountKind(sent, "response.cancel") <= 1
    /\ ClearBeforeCancel(sent)

C5_Witness ==
  /\ IsSpeechStarted(lastEvent)
  /\ HasKind(sent, "clear")
  /\ HasKind(sent, "response.cancel")

\* Messages that carry instructions for the engine, or start the greeting.
CarriesInstructions(msg) == msg.kind = "session.update"
IsGreeting(msg) == msg.kind = "response.create" /\ msg.a = "greeting"
IsCallInit(msg) == (msg.kind = "session.update" /\ msg.a = "call") \/ IsGreeting(msg)

\* C6 (as claimed): instructions and the opening utterance are sent only
\* after the engine connection opened and the telephony start signal was
\* received (or the timeout fired), and at most once per call.
C6_InstructionsOnlyAfterBoth ==
  /\ \A i \in 1..Len(sent) :
       CarriesInstructions(sent[i]) \/ IsGreeting(sent[i]) =>
         openaiReady /\ twilioStartReceived
  /\ CountKind(sent, "session.update") <= 1
  /\ nInit <= 1

\* C6 (amended): the call's own instructions and the opening utterance are
\* sent together, only after the engine connection opened and the telephony
\* start signal was received (or the timeout fired), and at most once per
\* call; apart from them the open handler of the engine socket sends a
\* session.update with fallback instructions as soon as the connection opens,
\* whether or not the start signal has arrived.
C6_CallInitOnlyAfterBoth ==
  /\ \A i \in 1..Len(sent) :
       IsCallInit(sent[i]) =>
         openaiReady /\ twilioStartReceived /\ sessionInitialized
  /\ CountKind(sent, "response.create") <= 1
  /\ (\E i \in 1..Len(sent) : IsGreeting(sent[i]))
       <=> (\E i \in 1..Len(sent) : sent[i] = SessionUpdate("call"))
  /\ \A i, j \in 1..Len(sent) :
       sent[i] = SessionUpdate("call") /\ IsGreeting(sent[j]) => i < j
  /\ nInit <= 1
  /\ (nInit = 1) <=> sessionInitialized
  /\ lastEvent.type = "open" <=>
       (\E i \in 1..Len(sent) : sent[i] = SessionUpdate("fallback"))

\* The session initialized by a start event that arrived after the open.
C6_Witness ==
  /\ lastEvent.type = "start"
  /\ sent = <<SessionUpdate("call"), ResponseCreate("greeting")>>
  /\ nInit = 1

\* C7: once the engine connection is open, the session is eventually
\* initialized (by the start signal or, failing that, by the timeout) unless
\* the engine connection leaves the OPEN state first.
C7_TimeoutInitializes ==
  openaiReady ~> (sessionInitialized \/ openaiState # "OPEN")

\* The timeout initialized a session whose start signal never arrived.
C7_Witness ==
  /\ lastEvent.type = "timeout"
  /\ HasKind(sent, "response.create")
  /\ streamSid = Absent

\* C8: within each direction audio is forwarded in arrival order, one message
\* at a time.  A handler sends synchronously, so the sequence forwarded is the
\* concatenation of what each event's handler sent: a telephony media frame
\* (a media event that carries a payload) handled while the engine socket is
\* open is forwarded as exactly one audio-append of that payload; an
\* audio-append is only sent for the media frame being handled, a media
\* message only for the audio delta being handled, each alone and with the
\* payload received.
C8_ForwardedInArrivalOrder ==
  /\ lastEvent.type = "media" /\ lastEvent.arg # Absent /\ openaiState = "OPEN" =>
       sent = <<AudioAppend(lastEvent.arg)>>
  /\ \A i \in 1..Len(sent) :
       sent[i].kind = "input_audio_buffer.append" =>
         lastEvent.type = "media" /\ sent = <<AudioAppend(lastEvent.arg)>>
  /\ \A i \in 1..Len(sent) :
       sent[i].kind = "media" =>
         IsAudioDelta(lastEvent) /\ sent = <<TwilioMedia(streamSid, lastEvent.arg)>>

C8_Witness ==
  /\ lastEvent.type = "media"
  /\ lastEvent.arg \in Payloads
  /\ sent = <<AudioAppend(lastEvent.arg)>>

IsArgumentsDelta(ev) == ev.type = "response.function_call_arguments.delta"
IsArgumentsDone(ev) == ev.type = "response.function_call_arguments.done"

\* The tool actions: a tool output or a forced response.
IsToolAction(msg) ==
  \/ msg.kind = "function_call_output"
  \/ msg.kind = "response.create" /\ msg.a # "greeting"

\* C9: the accumulated argument text is parsed, and a tool action (SMS
\* dispatch, tool output, forced response) is taken, only while a
\* function-call-arguments-done event is handled (its handler also resumes
\* when the SMS send settles); handling an arguments-delta event parses
\* nothing, sends nothing and dispatches nothing.
C9_ParseOnlyOnDone ==
  [][/\ parsed' # NoParse => IsArgumentsDone(lastEvent')
     /\ pendingSms' > pendingSms => IsArgumentsDone(lastEvent')
     /\ (\E i \in 1..Len(sent') : IsToolAction(sent'[i])) =>
          IsArgumentsDone(lastEvent') \/ lastEvent'.type = "sms.settled"
     /\ IsArgumentsDelta(lastEvent') =>
          /\ parsed' = NoParse
          /\ sent' = << >>
          /\ pendingSms' = pendingSms
          /\ messageDispatchStatus' = messageDispatchStatus
          /\ lastCapturedMessage' = lastCapturedMessage
    ]_vars

\* A delta completed a valid argument text in the buffer and nothing was
\* parsed.
C9_Witness ==
  /\ IsArgumentsDelta(lastEvent)
  /\ JsonValid(functionCallBuffer)
  /\ functionCallName = CaptureMessage
  /\ parsed = NoParse

\* C10 (as claimed): when a completion event names call id X, the text parsed
\* is the in-order concatenation of the fragments streamed for X.
C10_ParsedIsTextOfCall ==
  IsArgumentsDone(lastEvent) /\ lastEvent.arg # Absent /\ parsed # NoParse =>
    parsed = streamed[lastEvent.arg]

\* C11 (as claimed): the captured message is handed to the SMS provider at
\* most once per call, whatever completion events the engine sends.
C11_SubmitAtMostOnce == nSubmit <= 1

\* C12 (as claimed): whenever the telephony leg has disconnected, the engine
\* connection is eventually closed, whatever state it was in at that moment.
C12_EngineClosedAfterDisconnect ==
  (socketState = "CLOSED") ~> (openaiState = "CLOSED")

\* C13: when the engine credential is missing at call setup the telephony
\* socket is closed at once, no engine socket exists then or later (no
\* retry), and no handler is attached: nothing runs after the connection
\* handler, nothing is sent and no call state is written.  A call without
\* engine socket is always such a refused call.
C13_MissingCredentialRefuses ==
  /\ (bridge # "new" /\ openaiState = "NONE") <=> bridge = "refused"
  /\ bridge = "refused" =>
       /\ socketState = "CLOSING"
       /\ openaiState = "NONE"
       /\ lastEvent.type = "connection"
       /\ sent = << >>
       /\ timer = "idle"
       /\ streamSid = Absent
       /\ ~openaiReady /\ ~twilioStartReceived /\ ~sessionInitialized
       /\ ~activeResponse /\ ~userSpeaking
       /\ nInit = 0

C13_Witness == bridge = "refused" /\ lastEvent.type = "connection"

\* C14 (as claimed): when the engine connection fails during setup (it closes
\* before it ever opened) the telephony leg is closed.
C14_SetupFailureClosesLeg ==
  (openaiState = "CLOSED" /\ ~openaiReady) ~> (socketState # "OPEN")

\* C15: a malformed message on either socket is ignored: the handler sends
\* nothing, closes no socket and writes no flag or accumulator of the call,
\* so every later message is handled from the state the call had before.
C15_MalformedIgnored ==
  [][lastEvent'.type = "malformed" =>
       /\ sent' = << >>
       /\ parsed' = NoParse
       /\ UNCHANGED <<bridge, socketState, openaiState, callState, timer, toolState,
                      createdMax, ended, nInit>>
    ]_vars

\* A malformed message that arrived in the middle of an active response.
C15_Witness ==
  /\ lastEvent.type = "malformed"
  /\ activeResponse
  /\ sessionInitialized
  /\ currentResponseId # Absent

\* Whether a resampling ffmpeg spawned by the call ended with that outcome.
RunEnded(outcome) ==
  \E i \in 1..Len(rsSpawns) :
    rsSpawns[i].what = "run" /\ rsSpawns[i].outcome = outcome

C17_ResampleCompletes ==
  (rsPc \notin {"idle", "done"}) ~> (rsPc = "done")

\* C18 (as claimed): the availability probe (ffmpeg -version) is spawned at
\* most once per process, whatever entry points are called.
C18_ProbeAtMostOnce == nProbe <= 1

\* The state of every call but c is left as it was.
OthersUntouched(c) == \A d \in CallNames \ {c} : calls'[d] = calls[d]

\* C19 (as claimed): calls share no mutable state: a handler of one call
\* writes nothing another call holds or reads.
C19_NoSharedState ==
  [][\A c \in CallNames :
       actor' = c => OthersUntouched(c) /\ UNCHANGED <<ffmpegChecked, ffmpegUsable>>
    ]_vars

\* C19 (amended): a handler of one call leaves every flag, accumulator,
\* buffer and Conditioner state of every other call unchanged.  The one
\* state calls share is the availability cache of the resampler: the call
\* that resamples first writes it, once, and every call reads it afterwards.
C19_OnlyCacheShared ==
  [][/\ \A c \in CallNames : actor' = c => OthersUntouched(c)
     /\ ffmpegChecked => ffmpegChecked' /\ ffmpegUsable' = ffmpegUsable
    ]_vars

\* Call 2 was served by the sinc resampler on the strength of a probe that
\* call 1 made.
C19_Witness ==
  /\ actor = 2
  /\ calls[2].out = "sinc"
  /\ ~calls[2].probed
  /\ calls[1].probed
  /\ calls[1].dspBlocks # calls[2].dspBlocks \/ calls[1].userSpeaking # calls[2].userSpeaking

\* C20: chunkMulawFrames(buf, n), n >= 1, returns floor(len(buf)/n) frames of
\* n bytes each, in order, that together are the first floor(len(buf)/n)*n
\* bytes of buf: the trailing partial frame is dropped, not padded.  480
\* bytes give 3 frames of 160 bytes, and so do 500 bytes.
C20_ChunkExactFrames ==
  fnDone =>
    LET buf == fnArgs[1]
        n == fnArgs[2]
        k == Len(buf) \div n
    IN /\ Len(fnResult) = k
       /\ \A i \in 1..k :
            /\ Len(fnResult[i]) = n
            /\ \A j \in 1..n : fnResult[i][j] = buf[(i - 1) * n + j]
       /\ (n = 160 /\ Len(buf) \in {480, 500}) => Len(fnResult) = 3

\* 500 bytes were cut into three frames of 160.
C20_Witness ==
  /\ fnDone
  /\ Len(fnArgs[1]) = 500
  /\ fnArgs[2] = TWILIO_FRAME_BYTES
  /\ Len(fnResult) = 3
  /\ fnResult[3][160] = fnArgs[1][480]

\* The engine chooses how many companded bytes each audio delta carries, and
\* forwardAudioToTwilio copies message.delta into media.payload unchanged.
\* The sample payloads stand for half a frame and for one frame.
PayloadBytes(payload) == payload * (TWILIO_FRAME_BYTES \div 2)

\* C21: every media message sent to the telephony leg carries a payload of
\* exactly one telephony frame (160 companded bytes); nothing shorter is ever
\* sent.
C21_OutboundIsOneFrame ==
  \A i \in DOMAIN sent :
    (sent[i].to = "twilio" /\ sent[i].kind = "media")
      => PayloadBytes(sent[i].b) = TWILIO_FRAME_BYTES

\* Sum over i of |x[i] - y[i]| for two PCM buffers of n samples.
RECURSIVE DiffSum(_, _, _)
DiffSum(x, y, n) ==
  IF n = 0 THEN 0
  ELSE LET d == Int16At(x, n) - Int16At(y, n)
       IN (IF d < 0 THEN -d ELSE d) + DiffSum(x, y, n - 1)

RoundTripTolerance == 2000

\* C22: for any PCM16 buffer x, decodeMuLaw(encodeMuLaw(x)) has an average
\* absolute error per sample below 2000.
C22_RoundTripWithinTolerance ==
  (fnDone /\ fnArgs[1] = "roundtrip")
    => /\ ~fnResult.thrown
       /\ Len(fnResult.bytes) = Len(fnArgs[2])
       /\ LET n == Len(fnArgs[2]) \div 2
          IN DiffSum(fnArgs[2], fnResult.bytes, n) < RoundTripTolerance * n

ResampledBy(name) ==
  /\ fnDone
  /\ fnArgs[1] = name
  /\ ViewLength(fnArgs[2]) >= 1
  /\ fnArgs[3] # fnArgs[4]

\* round(L * F2 / F1) for the call made.
ExpectedSamples == RoundDiv(ViewLength(fnArgs[2]) * fnArgs[4], fnArgs[3])

\* C24: resampling L >= 1 samples from F1 to F2 # F1 gives a number of
\* samples within 1 of round(L * F2 / F1), for the linear and for the sinc
\* resampler; the linear one gives exactly that number when it is at least 1.
C24_OutputLength ==
  /\ (ResampledBy("linear") \/ ResampledBy("sinc")) =>
       /\ ViewLength(fnResult) - ExpectedSamples \in {-1, 0, 1}
       /\ Len(fnResult) = 2 * ViewLength(fnResult)
  /\ (ResampledBy("linear") /\ ExpectedSamples >= 1) =>
       ViewLength(fnResult) = ExpectedSamples

\* The sinc resampler has cut 3 samples at 4:2 down to one sample, where
\* round(1.5) is 2.
C24_Witness ==
  /\ ResampledBy("sinc")
  /\ ExpectedSamples = 2
  /\ ViewLength(fnResult) = 1

\* The samples a PCM buffer holds.
SamplesOf(pcmBuffer) == [i \in 1..ViewLength(pcmBuffer) |-> Int16At(pcmBuffer, i)]

AgcRan == dspTrace.calls > 0 /\ dspTrace.samples > 0

\* C26: the gain the AGC applies to a block differs from the gain it applied
\* to the block before by at most 1 dB per 100 ms of the block's duration.
C26_GainSlewCapped ==
  AgcRan =>
    LET delta == dspState.agcGain - dspTrace.before.agcGain
    IN (IF delta < 0 THEN -delta ELSE delta)
         <= dspTrace.samples * TicksPerSample(dspTrace.sampleRate)

RECURSIVE BucketSamples(_)
BucketSamples(queue) ==
  IF queue = << >> THEN 0 ELSE Head(queue).samples + BucketSamples(Tail(queue))

\* queue is what is left of all after dropping some of its oldest buckets.
IsNewestPart(queue, all) ==
  /\ Len(queue) <= Len(all)
  /\ queue = SubSeq(all, Len(all) - Len(queue) + 1, Len(all))

\* C27: after every applyAgc call on a block that is not empty,
\* agcSampleTotal is the sum of the sample counts of the buckets in
\* agcEnergyQueue, the buckets gone are the oldest ones, and agcSampleTotal is
\* at most one second of samples.
C27_WindowBookkeeping ==
  AgcRan =>
    /\ dspState.agcSampleTotal = BucketSamples(dspState.agcEnergyQueue)
    /\ dspState.agcSampleTotal <= dspTrace.sampleRate
    /\ \E e \in BlockEnergies :
         IsNewestPart(dspState.agcEnergyQueue,
                      Append(dspTrace.before.agcEnergyQueue,
                             [energy |-> e, samples |-> dspTrace.samples]))

\* A call evicted the oldest bucket and kept two.
C27_Witness ==
  /\ AgcRan
  /\ Len(dspTrace.before.agcEnergyQueue) = 2
  /\ Len(dspState.agcEnergyQueue) = 2
  /\ dspState.agcEnergyQueue[1] = dspTrace.before.agcEnergyQueue[2]

StageOrder ==
  <<"dc", "highpass", "lowpass", "compressor", "limiter", "agc", "limiter">>

\* Every filter memory has taken in the block of the last call.
AllStagesFed ==
  \A f \in {"dcMean", "hpPrevInput", "hpPrevOutput", "lpPrevOutput", "compressorEnv"} :
    dspState[f] = dspTrace.before[f] + dspTrace.samples

\* C28: for a block that is not empty processForTelephony runs DC removal,
\* high-pass, low-pass, compressor, limiter, AGC, limiter in this order on the
\* one Conditioner state, so that what it returns is within the limiter's
\* ceiling; an empty block changes no state.
C28_StageOrder ==
  /\ AgcRan =>
       /\ dspTrace.stages = StageOrder
       /\ AllStagesFed
       /\ dspTrace.peak <= CeilingDb
  /\ (dspTrace.calls > 0 /\ dspTrace.samples = 0) =>
       /\ dspTrace.stages = << >>
       /\ dspState = dspTrace.before

\* The AGC raised its gain on a block and the last limiter held the block at
\* the ceiling.
C28_Witness ==
  /\ AgcRan
  /\ dspState.agcGain > 0
  /\ dspTrace.peak = CeilingDb
  /\ dspTrace.before.agcSampleTotal > 0

\* C29: with the SMS configuration missing, when handleCaptureMessage resumes
\* from sendSmsToOwner the dispatch is recorded as failed, the tool output
\* says delivered: false on channel sms for the call the accumulator names,
\* a response about delayed delivery is forced, and neither the dispatch nor
\* the resumption closes the telephony or the engine socket.
C29_MissingSmsConfigDegrades ==
  [][/\ (~smsConfigured /\ pendingSms' < pendingSms) =>
          /\ socketState' = socketState
          /\ openaiState' = openaiState
          /\ messageDispatchStatus' = "failed"
          /\ openaiState = "OPEN" =>
               /\ sent' = (IF functionCallId # Absent
                           THEN <<FunctionCallOutput(functionCallId, "failed")>>
                           ELSE << >>) \o <<ResponseCreate("delayed")>>
               /\ activeResponse'
     /\ (~smsConfigured /\ pendingSms' > pendingSms) =>
          /\ socketState' = socketState
          /\ openaiState' = openaiState
          /\ sent' = << >>
    ]_vars

\* The caller was told of the delay, the engine was told that delivery
\* failed, and both connections are open.
C29_Witness ==
  /\ ~smsConfigured
  /\ lastEvent.type = "sms.settled"
  /\ sent = <<FunctionCallOutput(1, "failed"), ResponseCreate("delayed")>>
  /\ messageDispatchStatus = "failed"
  /\ socketState = "OPEN"
  /\ openaiState = "OPEN"
  /\ streamSid # Absent

\* The fragments appended to the accumulator since a handler parsed text buf.
AppendedSince(buf) ==
  IF Len(functionCallBuffer) > Len(buf)
       /\ SubSeq(functionCallBuffer, 1, Len(buf)) = buf
  THEN SubSeq(functionCallBuffer, Len(buf) + 1, Len(functionCallBuffer))
  ELSE NoText

\* Whether text ends with the given fragments.
EndsWith(text, frags) ==
  /\ Len(text) >= Len(frags)
  /\ SubSeq(text, Len(text) - Len(frags) + 1, Len(text)) = frags

\* C30 (as claimed): when a suspended capture_message handler resumes with the
\* engine socket open, the function_call_output it sends carries the call id
\* of the call it parsed, whatever tool-call events were handled meanwhile,
\* and the fragments of another call appended meanwhile stay in the
\* accumulator.
C30_OutputAnswersDispatchedCall ==
  [][pendingSms' < pendingSms =>
       /\ openaiState = "OPEN" =>
            \E i \in 1..Len(sent') :
              /\ sent'[i].kind = "function_call_output"
              /\ sent'[i] = FunctionCallOutput(Head(dispatched).id, sent'[i].b)
       /\ functionCallId # Head(dispatched).id =>
            EndsWith(functionCallBuffer', AppendedSince(Head(dispatched).buf))
    ]_vars

IsResponseEnd(ev) == ev.type = "response.end"

\* C31: every response-end event leaves the response-active flag cleared,
\* whatever response id it names; while the flag is cleared every engine audio
\* delta is dropped; and the flag is set again only by a response.created
\* event or by a locally forced response (a response.create the bridge sends
\* from forceResponse).
C31_EndGatesAudio ==
  [][/\ IsResponseEnd(lastEvent') => ~activeResponse'
     /\ ~activeResponse /\ IsAudioDelta(lastEvent') => ~HasKind(sent', "media")
     /\ ~activeResponse /\ activeResponse' =>
          \/ lastEvent'.type = "response.created"
          \/ \E w \in {"repeat", "restate", "captured", "delayed"} :
               ResponseCreate(w) \in {sent'[i] : i \in 1..Len(sent')}
    ]_vars

\* An audio delta of response 2, which has not ended, was dropped with the
\* caller silent and the telephony leg streaming: the end event of the older
\* response 1 had cleared the flag.
C31_Witness ==
  /\ IsAudioDelta(lastEvent)
  /\ lastEvent.arg # Absent
  /\ sent = << >>
  /\ ~activeResponse
  /\ ~userSpeaking
  /\ streamSid # Absent
  /\ socketState = "OPEN"
  /\ currentResponseId = 2
  /\ ended = {1}

\* The media and clear messages among msgs.
ToTwilio(msgs) == {o \in {msgs[i] : i \in 1..Len(msgs)} : o.to = "twilio"}

\* Every message the step sends to the telephony leg carries the stream id
\* the bridge holds, after a start event was received and with the telephony
\* socket open.
StampedAndGated ==
  \A o \in ToTwilio(sent') :
    /\ o.kind \in {"media", "clear"}
    /\ o.a = streamSid'
    /\ o.a # Absent
    /\ twilioStartReceived'
    /\ socketState = "OPEN"
    /\ socketState' = "OPEN"

\* C32 (as claimed): the stream id the bridge stamps on media and clear
\* messages is the one of the most recent telephony start event; none is sent
\* before a start event or with the telephony socket not open.
C32_CarriesLatestStartId ==
  [][/\ StampedAndGated
     /\ lastEvent'.type = "start" => streamSid' = lastEvent'.arg
     /\ streamSid' # streamSid => lastEvent'.type = "start"
    ]_vars

\* C32 (amended): the stream id stamped is the one of the most recent start
\* event that carried a stream id; a start event without one leaves the id
\* held.
C32_CarriesLatestIdReceived ==
  [][/\ StampedAndGated
     /\ lastEvent'.type = "start" =>
          streamSid' = IF lastEvent'.arg # Absent THEN lastEvent'.arg ELSE streamSid
     /\ streamSid' # streamSid => lastEvent'.type = "start"
    ]_vars

\* An engine audio delta forwarded with the stream id held, and a start event
\* had been received.
C32_Witness ==
  /\ IsAudioDelta(lastEvent)
  /\ streamSid = 2
  /\ twilioStartReceived
  /\ sent = <<TwilioMedia(2, lastEvent.arg)>>

\* C33 (as claimed): in the order-taking bridge, session initialization
\* (session.update plus the greeting response.create) is sent at most once per
\* call, whatever the order of engine open, telephony start events, the
\* timeout and the settling of the restaurant lookup.
C33_OrderInitAtMostOnce == orderCall.nInit <= 1

\* The submit_order payload captured last when the close handler reaches its
\* write from state o: the handlers suspended before it resume first.
MostRecentPayload(o) ==
  IF o.closePc # "awaitReady" THEN o.lastSubmitOrderPayload
  ELSE LET k == CHOOSE i \in 1..Len(o.waiters) : o.waiters[i].kind = "close"
           before == {i \in 1..(k - 1) : o.waiters[i].kind = "done"}
       IN IF before = {} THEN o.lastSubmitOrderPayload
          ELSE o.waiters[CHOOSE i \in before : \A j \in before : j <= i].payload

\* The order store has been written at most once, by the telephony close
\* handler and with restaurant context loaded.
WrittenOnceAtClose ==
  /\ Len(orderCall.written) <= 1
  /\ orderCall.written # << >> =>
       /\ orderCall.socketState = "CLOSED"
       /\ orderCall.currentRestaurant
       /\ orderCall.closePc \in {"writing", "done"}

\* The close handler has finished with restaurant context loaded and a
\* submit_order completion event was received before the telephony leg closed.
OrderDue ==
  /\ orderCall.closePc = "done"
  /\ orderCall.restaurantReady = "resolved"
  /\ orderCall.currentRestaurant
  /\ orderCall.completed # NoPayload

\* C34 (as claimed): in the order-taking bridge the order store is written at
\* most once per call, only by the telephony close handler and only with
\* restaurant context loaded; the payload written is the most recent
\* submit_order payload captured; and once the close handler has finished
\* with restaurant context loaded, a submit_order whose completion event was
\* received before the telephony leg closed has been flushed by that write.
C34_OrderFlushedAtClose ==
  [][/\ WrittenOnceAtClose'
     /\ orderCall.written' # orderCall.written =>
          orderCall.written' = <<MostRecentPayload(orderCall)>>
     /\ OrderDue' => Len(orderCall.written') = 1
    ]_vars

\* What holds of the write: one write at most, by the close handler, with
\* restaurant context, of the most recent payload captured.
OrderWriteIsGuarded ==
  [][/\ WrittenOnceAtClose'
     /\ orderCall.written' # orderCall.written =>
          orderCall.written' = <<MostRecentPayload(orderCall)>>
    ]_vars

\* C35: in the Gemini bridge userSpeaking is never cleared once set: from the
\* first user.start event of a call on, every audio.delta from the engine is
\* dropped and no media message is sent to the telephony leg.
C35_BargeInIsPermanent ==
  geminiCall.bargedIn =>
    /\ geminiCall.userSpeaking
    /\ ~HasKind(geminiCall.sent, "media")

\* An audio.delta dropped after a barge-in, with the stream id known and the
\* telephony socket open.
C35_Witness ==
  /\ geminiCall.bargedIn
  /\ geminiCall.lastEvent = "audio.delta"
  /\ geminiCall.streamSid # Absent
  /\ geminiCall.socketState = "OPEN"
  /\ geminiCall.sent = << >>

IsMediaThen(t) == t.kind = "media"
\* The payloads of the media frames among the callbacks ts, in order.
MediaOf(ts) ==
  LET sel == SelectSeq(ts, IsMediaThen)
  IN [i \in 1..Len(sel) |-> sel[i].payload]

\* initializeGemini is invoked at most once per call, and the media frames are
\* handed to sendAudioChunk in arrival order once the session exists.
OneSessionFramesHanded ==
  [][/\ geminiCall'.nInitialize <= 1
     /\ geminiCall'.clientRef /\ ~geminiCall.clientRef =>
          geminiCall'.handed = MediaOf(geminiCall.thens)
    ]_vars

\* The step makes the client exist with its ready promise resolved, the
\* engine socket not closed: the frames held back until then are processed.
ClientBecomesReady ==
  /\ geminiCall'.clientRef /\ geminiCall'.readyResolved
  /\ ~(geminiCall.clientRef /\ geminiCall.readyResolved)
  /\ ~geminiCall'.engineClosed

\* The media frames held back in state g, in arrival order: callbacks on the
\* pending geminiClientPromise, or sendAudioChunk calls awaiting ready.
HeldFrames(g) == IF g.clientRef THEN g.readyWaiters ELSE MediaOf(g.thens)

\* C36 (as claimed): in the Gemini bridge initializeGemini is invoked at most
\* once per call, and the media frames received while the session is being
\* established are sent to that session, in arrival order, once it is
\* established and ready.
C36_OneSessionFramesInOrder ==
  [][/\ geminiCall'.nInitialize <= 1
     /\ ClientBecomesReady => geminiCall'.forwarded = HeldFrames(geminiCall)
    ]_vars

\* What the code does with the frames held back: every one of them is
\* skipped, the session not being acknowledged yet.
HeldFramesAreSkipped ==
  [][ClientBecomesReady => geminiCall'.forwarded = << >>]_vars

\* C37: in the Gemini bridge a session that becomes established after the
\* telephony leg has closed is closed in the step that establishes it, and
\* whenever the telephony leg is closed and a session is established, the
\* session is eventually closed.
C37_SessionClosedAfterHangup ==
  /\ [][/\ geminiCall'.clientRef /\ ~geminiCall.clientRef
        /\ geminiCall.socketState = "CLOSED"
        => geminiCall'.sessionClosed]_vars
  /\ (geminiCall.socketState = "CLOSED" /\ geminiCall.clientRef)
       ~> geminiCall.sessionClosed

\* The session was established after the telephony leg had closed, and was
\* closed at once.
C37_Witness ==
  /\ geminiCall.lastEvent = "connect"
  /\ geminiCall.socketState = "CLOSED"
  /\ geminiCall.clientRef
  /\ geminiCall.sessionClosed

\* C38: connectGeminiLive marks the client ready and sends the greeting
\* prompt exactly once per session: not before the client exists and the
\* socket has opened, once when both hold, and never again, in either order
\* of the two events.
C38_ReadyExactlyOnce ==
  /\ geminiCall.nReady <= 1
  /\ geminiCall.nGreeting = geminiCall.nReady
  /\ geminiCall.readyResolved <=> geminiCall.nReady = 1
  /\ geminiCall.nReady = 1 <=> (geminiCall.clientRef /\ geminiCall.openSeen)

\* The socket opened after the client had been made, and the client was
\* marked ready then.
C38_Witness ==
  /\ geminiCall.lastEvent = "open"
  /\ geminiCall.clientRef
  /\ geminiCall.nReady = 1
  /\ geminiCall.nGreeting = 1

\* C39: across any sequence of handleGeminiAudioBytes calls the bytes of the
\* 8 kHz samples the resampler produced are, in the order of production,
\* those of the emitted frames followed by those still in audio8kBuffer, so
\* each is emitted once or still held; every frame has 160 samples; after a
\* call audio8kBuffer holds less than a frame (320 bytes) and audioInBuffer
\* less than neededInputBytes of the last call that had bytes (nothing
\* before the first).
\* The bytes of frames of 160 samples, in the order of emission.
EmittedBytes ==
  [k \in 1..(Len(audioOut.frames) * pcmFrameBytes) |->
     audioOut.frames[((k - 1) \div pcmFrameBytes) + 1]
                    [(((k - 1) % pcmFrameBytes) \div 2) + 1][((k - 1) % 2) + 1]]

C39_EverySampleOnceInFrames ==
  /\ \A i \in 1..Len(audioOut.frames) :
       Len(audioOut.frames[i]) = TWILIO_FRAME_SAMPLES
  /\ EmittedBytes \o audioOut.audio8kBuffer = [i \in 1..audioOut.produced |-> i]
  /\ Len(audioOut.audio8kBuffer) < 2 * TWILIO_FRAME_SAMPLES
  /\ IF audioOut.needed = 0 THEN audioOut.audioInBuffer = << >>
     ELSE Len(audioOut.audioInBuffer) < audioOut.needed

\* A call that cut more than one chunk, after which frames have been emitted
\* and both buffers hold a remainder.
C39_Witness ==
  /\ audioOut.nChunks > 1
  /\ Len(audioOut.frames) > 10
  /\ Len(audioOut.audio8kBuffer) > 0
  /\ Len(audioOut.audioInBuffer) > 0

\* C40: re-encoding decoded audio is stable: every mu-law code other than
\* 0x7F comes back from encodeMuLaw(decodeMuLaw(.)) as itself.
Reencoded == fnDone /\ fnArgs[1] = "reencode"

C40_ReencodeIsStable ==
  Reencoded =>
    /\ ~fnResult.thrown
    /\ Len(fnResult.bytes) = Len(fnArgs[2])
    /\ \A i \in DOMAIN fnArgs[2] :
         fnArgs[2][i] # 127 => fnResult.bytes[i] = fnArgs[2][i]

\* What the encoder does recover of a code other than 0x7F: its sign and its
\* exponent, the upper four bits.
ReencodeKeepsSignAndExponent ==
  Reencoded =>
    /\ ~fnResult.thrown
    /\ Len(fnResult.bytes) = Len(fnArgs[2])
    /\ \A i \in DOMAIN fnArgs[2] :
         fnArgs[2][i] # 127 => fnResult.bytes[i] \div 16 = fnArgs[2][i] \div 16

====
